---- MODULE Spec2Model ----
(***************************************************************************)
(* Field-level encryption engine of HackItDatabaseAPI (package encryption, *)
(* src/unnamed/part_002) and the handlers and queries that call it.        *)
(*                                                                         *)
(* Go strings are byte strings: a string value is a sequence of bytes      *)
(* (0..255).  Map keys and error texts, which the code only compares,      *)
(* prefixes, suffixes and concatenates, are TLA+ strings.                  *)
(***************************************************************************)
EXTENDS Integers, Sequences, FiniteSets, TLC

VARIABLES
    key,          \* encryption.key, set once by init()
    passphrase,   \* os.Getenv("DATABASE_ENCRYPTION") read by init()
    pc,           \* which scenario the run is in and how far it got
    plaintext,    \* codec scenario: the string handed to encryptAES256
    encCalls,     \* codec scenario: the (at most two) encryptAES256 calls made
    decCalls,     \* codec scenario: the last decryptAES256 call, if any
    reCalls,      \* codec scenario: the last encryptAES256 call on an envelope
    calls,        \* concurrent scenario: the call each goroutine is in
    requestData,  \* dynamic scenario: the map[string]interface{} handed in
    encOut,       \* dynamic scenario: the EncryptFieldsByConfig call, if made
    decOut,       \* dynamic scenario: the last DecryptFieldsByConfig call
    hashOut,      \* dynamic scenario: the last ProcessFieldsForHash call
    entity,       \* typed scenario: the models.Staff handed in
    encStruct,    \* typed scenario: the EncryptStructFields call, if made
    reStruct,     \* typed scenario: EncryptStructFields on what the first call left
    decStruct,    \* typed scenario: DecryptStructFields on what the first call left
    db,           \* store scenario: the documents of the collection, as inserted
    origin,       \* store scenario: origin[i] is the request body db[i] was made from
    response,     \* store scenario: the last request and the response it got
    staffColl,    \* store scenario: the documents of the "staff" collection
    issued        \* store scenario: the storage calls the last request issued

codecVars == <<plaintext, encCalls, decCalls, reCalls, calls>>

dynVars == <<requestData, encOut, decOut, hashOut>>

typedVars == <<entity, encStruct, reStruct, decStruct>>

storeVars == <<db, origin, response, staffColl, issued>>

vars == <<key, passphrase, pc, codecVars, dynVars, typedVars, storeVars>>

----------------------------------------------------------------------------
(* Bytes and strings *)

CharAt(s, i) == SubSeq(s, i, i)

IndexOf(c, table) == CHOOSE i \in 1..Len(table) : CharAt(table, i) = c

Within(c, table) == \E i \in 1..Len(table) : CharAt(table, i) = c

\* the ASCII code of a one-character string
Code(c) ==
    IF Within(c, "0123456789") THEN 47 + IndexOf(c, "0123456789")
    ELSE IF Within(c, "ABCDEFGHIJKLMNOPQRSTUVWXYZ")
    THEN 64 + IndexOf(c, "ABCDEFGHIJKLMNOPQRSTUVWXYZ")
    ELSE IF Within(c, "abcdefghijklmnopqrstuvwxyz")
    THEN 96 + IndexOf(c, "abcdefghijklmnopqrstuvwxyz")
    ELSE IF Within(c, " !") THEN 31 + IndexOf(c, " !")
    ELSE IF Within(c, "+,-./") THEN 42 + IndexOf(c, "+,-./")
    ELSE IF c = ":" THEN 58
    ELSE IF c = "=" THEN 61
    ELSE IF c = "@" THEN 64
    ELSE 95   \* "_"

\* []byte(s) of a string literal
Bytes(s) == [i \in 1..Len(s) |-> Code(CharAt(s, i))]

\* strings.HasPrefix / strings.HasSuffix, on byte strings and on TLA+ strings
HasPrefix(s, p) == Len(s) >= Len(p) /\ SubSeq(s, 1, Len(p)) = p

HasSuffix(s, p) == Len(s) >= Len(p) /\ SubSeq(s, Len(s) - Len(p) + 1, Len(s)) = p

RECURSIVE BitXor(_, _, _)
BitXor(a, b, n) ==
    IF n = 0 THEN 0
    ELSE (((a % 2) + (b % 2)) % 2) + 2 * BitXor(a \div 2, b \div 2, n - 1)

\* a ^ b on bytes
Xor(a, b) == BitXor(a, b, 8)

----------------------------------------------------------------------------
(* Library functions the package calls.  SHA-256, SHA-512 and the AES block *)
(* transform are stand-ins: deterministic total functions of their whole    *)
(* input with the library's output sizes.  Base64, hex and CFB are          *)
(* computed as the library computes them.                                   *)

RECURSIVE WeighedSum(_, _, _)
\* the sum over lo..hi of (b[i] + 1) * (31 * i * i + 7 * i + 3), by halves
WeighedSum(b, lo, hi) ==
    IF lo > hi THEN 0
    ELSE IF lo = hi THEN (b[lo] + 1) * ((31 * lo * lo) + (7 * lo) + 3)
    ELSE LET mid == (lo + hi) \div 2
         IN  WeighedSum(b, lo, mid) + WeighedSum(b, mid + 1, hi)

Mix(seed, b) == ((seed * 8191) + (Len(b) * 257) + WeighedSum(b, 1, Len(b))) % 65521

Digest(seed, b, n) ==
    LET h == Mix(seed, b)
    IN  [i \in 1..n |-> (IF (i % 2) = 1 THEN (h \div 256) + (37 * i)
                                       ELSE (h % 256) + (101 * i)) % 256]

\* sha256.Sum256
Sum256(b) == Digest(7, b, 32)

\* sha512.Sum512
Sum512(b) == Digest(11, b, 64)

HexDigits == Bytes("0123456789abcdef")

\* hex.EncodeToString
HexEncode(b) ==
    [j \in 1..(2 * Len(b)) |->
        IF (j % 2) = 1 THEN HexDigits[(b[(j + 1) \div 2] \div 16) + 1]
                       ELSE HexDigits[(b[j \div 2] % 16) + 1]]

B64Alphabet == Bytes("ABCDEFGHIJKLMNOPQRSTUVWXYZabcdefghijklmnopqrstuvwxyz0123456789+/")

\* '='
B64Pad == 61

B64Char(n) == B64Alphabet[n + 1]

\* base64.StdEncoding.EncodeToString
Base64Encode(b) ==
    LET n == Len(b)
        at(i) == IF i <= n THEN b[i] ELSE 0
    IN  [j \in 1..(4 * ((n + 2) \div 3)) |->
            LET g == 3 * ((j - 1) \div 4)
                p == (j - 1) % 4
            IN  IF p = 0 THEN B64Char(at(g + 1) \div 4)
                ELSE IF p = 1
                THEN B64Char(((at(g + 1) % 4) * 16) + (at(g + 2) \div 16))
                ELSE IF p = 2
                THEN IF g + 2 > n THEN B64Pad
                     ELSE B64Char(((at(g + 2) % 16) * 4) + (at(g + 3) \div 64))
                ELSE IF g + 3 > n THEN B64Pad
                     ELSE B64Char(at(g + 3) % 64)]

\* the decoder's table: 'A'..'Z', 'a'..'z', '0'..'9', '+', '/'
IsB64(c) ==
    \/ (65 <= c /\ c <= 90) \/ (97 <= c /\ c <= 122) \/ (48 <= c /\ c <= 57)
    \/ c = 43 \/ c = 47

B64Val(c) ==
    IF 65 <= c /\ c <= 90 THEN c - 65
    ELSE IF 97 <= c /\ c <= 122 THEN c - 71
    ELSE IF 48 <= c /\ c <= 57 THEN c + 4
    ELSE IF c = 43 THEN 62
    ELSE IF c = 47 THEN 63
    ELSE 0

\* the decoder skips '\r' and '\n'
StripNewlines(s) == SelectSeq(s, LAMBDA c : c # 13 /\ c # 10)

ErrBase64 == "illegal base64 data"

\* base64.StdEncoding.DecodeString: quanta of four characters, padding
\* required and allowed only at the end of the last quantum
Base64Decode(s) ==
    LET t == StripNewlines(s)
        n == Len(t)
        pads == IF n < 4 THEN 0
                ELSE IF t[n] = B64Pad /\ t[n - 1] = B64Pad THEN 2
                ELSE IF t[n] = B64Pad THEN 1
                ELSE 0
        ok == /\ (n % 4) = 0
              /\ \A i \in 1..(n - pads) : IsB64(t[i])
        v(i) == B64Val(t[i])
    IN  IF ~ok THEN [val |-> <<>>, err |-> ErrBase64]
        ELSE [val |-> [m \in 1..((3 * (n \div 4)) - pads) |->
                        LET g == 4 * ((m - 1) \div 3)
                            r == (m - 1) % 3
                        IN  IF r = 0 THEN (v(g + 1) * 4) + (v(g + 2) \div 16)
                            ELSE IF r = 1
                            THEN ((v(g + 2) % 16) * 16) + (v(g + 3) \div 4)
                            ELSE ((v(g + 3) % 4) * 64) + v(g + 4)],
              err |-> "nil"]

\* aes.BlockSize
BlockSize == 16

\* len(key): byteKey[:32]
KeySize == 32

\* cipher.Block.Encrypt of the block made by aes.NewCipher(key)
AESEncryptBlock(k, b) ==
    LET s == Mix(Mix(13, k), b)
    IN  [i \in 1..BlockSize |->
            ((s * ((2 * i) + 1)) + (7 * b[i]) + k[i] + k[i + BlockSize]
             + ((s \div (i + 1)) * 5) + (17 * i)) % 256]

RECURSIVE XORKeyStream(_, _, _, _)
\* cipher.NewCFBEncrypter / NewCFBDecrypter and Stream.XORKeyStream, one
\* block of key stream at a time: `next` is the feedback register, which
\* takes the ciphertext of the block (the output when encrypting, the input
\* when decrypting)
XORKeyStream(k, next, src, decrypt) ==
    IF Len(src) = 0 THEN <<>>
    ELSE LET out == AESEncryptBlock(k, next)
             n == IF Len(src) < BlockSize THEN Len(src) ELSE BlockSize
             dst == [i \in 1..n |-> Xor(src[i], out[i])]
             fed == IF decrypt THEN SubSeq(src, 1, n) ELSE dst
         IN  dst \o (IF Len(src) <= BlockSize THEN <<>>
                     ELSE XORKeyStream(k, fed, SubSeq(src, n + 1, Len(src)), decrypt))

CFB(k, iv, src, decrypt) == XORKeyStream(k, iv, src, decrypt)

----------------------------------------------------------------------------
(* Key Material Holder and Symmetric Cipher Codec *)

Tag == Bytes("AES256:")

ErrAlreadyEncrypted == "string already encrypted"

ErrInvalidFormat == "invalid encrypted format"

\* a run-time panic (slice bounds out of range); it unwinds the callers
Panic == "panic: slice bounds out of range"

\* init(): key = sha512.Sum512(passphrase)[:32]
DeriveKey(p) == SubSeq(Sum512(p), 1, KeySize)

\* encryptAES256 with a constant IV instead of the random one
encryptAES256_FixedIV(k, s, iv) ==
    IF HasPrefix(s, Tag)
    THEN [val |-> <<>>, err |-> ErrAlreadyEncrypted]
    ELSE LET zero == [i \in 1..BlockSize |-> 0]
             ciphertext == zero \o CFB(k, zero, s, FALSE)
         IN  [val |-> Tag \o Base64Encode(ciphertext), err |-> "nil"]

\* encryptAES256 without the already-encrypted guard
encryptAES256_NoGuard(k, s, iv) ==
    LET ciphertext == iv \o CFB(k, iv, s, FALSE)
    IN  [val |-> Tag \o Base64Encode(ciphertext), err |-> "nil"]

\* encryptAES256 with the bytes rand.Reader delivers for the IV
encryptAES256(k, s, iv) ==
    IF HasPrefix(s, Tag)
    THEN [val |-> <<>>, err |-> ErrAlreadyEncrypted]
    ELSE LET ciphertext == iv \o CFB(k, iv, s, FALSE)
         IN  [val |-> Tag \o Base64Encode(ciphertext), err |-> "nil"]

\* decryptAES256 that does not split the IV off the decoded bytes
decryptAES256_KeepIV(k, c) ==
    IF ~HasPrefix(c, Tag)
    THEN [val |-> <<>>, err |-> ErrInvalidFormat]
    ELSE LET dec == Base64Decode(SubSeq(c, Len(Tag) + 1, Len(c)))
         IN  IF dec.err # "nil" THEN [val |-> <<>>, err |-> dec.err]
             ELSE IF Len(dec.val) < BlockSize THEN [val |-> <<>>, err |-> Panic]
             ELSE [val |-> CFB(k, SubSeq(dec.val, 1, BlockSize), dec.val, TRUE),
                   err |-> "nil"]

\* decryptAES256 without the format check
decryptAES256_NoTagCheck(k, c) ==
    LET dec == Base64Decode(SubSeq(c, Len(Tag) + 1, Len(c)))
    IN  IF dec.err # "nil" THEN [val |-> <<>>, err |-> dec.err]
        ELSE IF Len(dec.val) < BlockSize THEN [val |-> <<>>, err |-> Panic]
        ELSE LET iv == SubSeq(dec.val, 1, BlockSize)
                 data == SubSeq(dec.val, BlockSize + 1, Len(dec.val))
             IN  [val |-> CFB(k, iv, data, TRUE), err |-> "nil"]

decryptAES256(k, c) ==
    IF ~HasPrefix(c, Tag)
    THEN [val |-> <<>>, err |-> ErrInvalidFormat]
    ELSE LET dec == Base64Decode(SubSeq(c, Len(Tag) + 1, Len(c)))
         IN  IF dec.err # "nil" THEN [val |-> <<>>, err |-> dec.err]
             ELSE IF Len(dec.val) < BlockSize THEN [val |-> <<>>, err |-> Panic]
             ELSE LET iv == SubSeq(dec.val, 1, BlockSize)
                      data == SubSeq(dec.val, BlockSize + 1, Len(dec.val))
                  IN  [val |-> CFB(k, iv, data, TRUE), err |-> "nil"]

----------------------------------------------------------------------------
(* Dynamic-Record Traversal Engine.  A map[string]interface{} is a function *)
(* from keys to JSON values; a value is tagged with its dynamic type.       *)


\* `v` holds the bytes of a string (the number of a number, the truth value
\* of a bool) and `names` the keys of a nested map (the strings of a list):
\* the engine reads nothing else of a value
StrV(b) == [kind |-> "string", v |-> b, names |-> {}]

NumV(n) == [kind |-> "number", v |-> <<n>>, names |-> {}]

BoolV(b) == [kind |-> "bool", v |-> <<IF b THEN 1 ELSE 0>>, names |-> {}]

\* a nested map[string]interface{} with the keys K
ObjV(K) == [kind |-> "object", v |-> <<>>, names |-> K]

\* a []interface{} of the strings K
ArrV(K) == [kind |-> "array", v |-> <<>>, names |-> K]

IsStr(x) == x.kind = "string"

\* delete(m, k)
Delete(m, k) == [f \in (DOMAIN m) \ {k} |-> m[f]]

\* m[k] = x
Put(m, k, x) == (k :> x) @@ m

HashSuffix == "_hash"

IgnoreKey == "ignore_encryption"

\* hex.EncodeToString(sha256.Sum256([]byte(strValue)))
Fingerprint(b) == HexEncode(Sum256(b))

\* ignoreConfig, hasIgnore := data["ignore_encryption"].(map[string]interface{})
HasIgnore(m) == IgnoreKey \in DOMAIN m /\ m[IgnoreKey].kind = "object"

IgnoreConfig_None(m) == {}

IgnoreConfig(m) == IF HasIgnore(m) THEN m[IgnoreKey].names ELSE {}

\* the skips without the one for keys that end in "_hash"
Skipped_NoSuffix(field, ignored) ==
    \/ field = IgnoreKey
    \/ field \in ignored

\* the fields the loop bodies of EncryptFieldsByConfig and
\* ProcessFieldsForHash go on to treat, by their three `continue`s
Skipped(field, ignored) ==
    \/ field = IgnoreKey
    \/ field \in ignored
    \/ HasSuffix(field, HashSuffix)

\* one iteration of the range loop of EncryptFieldsByConfig; `ivs` is what
\* rand.Reader has yet to deliver, before and after
EncryptField_NoHash(k, m, ignored, field, ivs) ==
    IF Skipped(field, ignored) \/ ~IsStr(m[field])
    THEN [data |-> m, err |-> "nil", ivs |-> ivs]
    ELSE LET enc == encryptAES256(k, m[field].v, Head(ivs))
         IN  IF enc.err # "nil" THEN [data |-> m, err |-> enc.err, ivs |-> ivs]
             ELSE [data |-> Put(m, field, StrV(enc.val)), err |-> "nil", ivs |-> Tail(ivs)]

\* the iteration with `continue` in place of `return err`
EncryptField_SkipTagged(k, m, ignored, field, ivs) ==
    IF Skipped(field, ignored) \/ ~IsStr(m[field])
    THEN [data |-> m, err |-> "nil", ivs |-> ivs]
    ELSE LET enc == encryptAES256(k, m[field].v, Head(ivs))
         IN  IF enc.err # "nil" THEN [data |-> m, err |-> "nil", ivs |-> ivs]
             ELSE [data |-> Put(Put(m, field, StrV(enc.val)),
                                field \o HashSuffix, StrV(Fingerprint(m[field].v))),
                   err |-> "nil", ivs |-> Tail(ivs)]

\* the iteration with the key mixed into what is hashed
EncryptField_KeyedHash(k, m, ignored, field, ivs) ==
    IF Skipped(field, ignored) \/ ~IsStr(m[field])
    THEN [data |-> m, err |-> "nil", ivs |-> ivs]
    ELSE LET enc == encryptAES256(k, m[field].v, Head(ivs))
         IN  IF enc.err # "nil" THEN [data |-> m, err |-> enc.err, ivs |-> ivs]
             ELSE [data |-> Put(Put(m, field, StrV(enc.val)),
                                field \o HashSuffix,
                                StrV(Fingerprint(SubSeq(k, 1, 1) \o m[field].v))),
                   err |-> "nil", ivs |-> Tail(ivs)]

EncryptField(k, m, ignored, field, ivs) ==
    IF Skipped(field, ignored) \/ ~IsStr(m[field])
    THEN [data |-> m, err |-> "nil", ivs |-> ivs]
    ELSE LET enc == encryptAES256(k, m[field].v, Head(ivs))
         IN  IF enc.err # "nil" THEN [data |-> m, err |-> enc.err, ivs |-> ivs]
             ELSE [data |-> Put(Put(m, field, StrV(enc.val)),
                                field \o HashSuffix, StrV(Fingerprint(m[field].v))),
                   err |-> "nil", ivs |-> Tail(ivs)]

RECURSIVE EncryptRange(_, _, _, _)
\* `for field, value := range data` of EncryptFieldsByConfig, from the map
\* and the error r holds.  `order` is the order in which this run of the
\* loop produces the keys the map had when the loop began.  The keys the
\* loop inserts all end in "_hash": whether and when the loop produces them
\* changes nothing, the body skips them.
EncryptRange(k, ignored, order, r) ==
    IF r.err # "nil" \/ order = <<>> THEN r
    ELSE EncryptRange(k, ignored, Tail(order),
                      EncryptField(k, r.data, ignored, Head(order), r.ivs))

\* the return that leaves ignore_encryption in the map
EncryptReturn_KeepControl(r) == [data |-> r.data, err |-> r.err]

\* `return err` inside the loop, or delete(data, "ignore_encryption") and
\* `return nil` after it
EncryptReturn(r) ==
    IF r.err # "nil" THEN [data |-> r.data, err |-> r.err]
    ELSE [data |-> Delete(r.data, IgnoreKey), err |-> "nil"]

\* the map is changed in place: `data` is what the caller's map holds when
\* the function returns, also when it returns an error
EncryptFieldsByConfig(k, m, order, ivs) ==
    EncryptReturn(EncryptRange(k, IgnoreConfig(m), order,
                               [data |-> m, err |-> "nil", ivs |-> ivs]))

\* one iteration of the range loop of DecryptFieldsByConfig
DecryptField(k, m, field) ==
    IF IsStr(m[field]) /\ HasPrefix(m[field].v, Tag)
    THEN LET dec == decryptAES256(k, m[field].v)
         IN  IF dec.err # "nil" THEN [data |-> m, err |-> dec.err]
             ELSE [data |-> Delete(Put(m, field, StrV(dec.val)), field \o HashSuffix),
                   err |-> "nil"]
    ELSE [data |-> Delete(m, field \o HashSuffix), err |-> "nil"]

RECURSIVE DecryptRange(_, _, _)
\* `for field, value := range data` of DecryptFieldsByConfig, from the map
\* and the error r holds: an entry the loop deleted before reaching it is
\* not produced
DecryptRange(k, order, r) ==
    IF r.err # "nil" \/ order = <<>> THEN r
    ELSE DecryptRange(k, Tail(order),
                      IF Head(order) \notin DOMAIN r.data THEN r
                      ELSE DecryptField(k, r.data, Head(order)))

DecryptFieldsByConfig(k, m, order) == DecryptRange(k, order, [data |-> m, err |-> "nil"])

ProcessField_KeepPlain(m, ignored, field) ==
    IF Skipped(field, ignored) \/ ~IsStr(m[field]) THEN m
    ELSE Put(m, field \o HashSuffix, StrV(Fingerprint(m[field].v)))

\* the iteration without the check against ignore_encryption
ProcessField_NoExempt(m, ignored, field) ==
    IF field = IgnoreKey \/ HasSuffix(field, HashSuffix) \/ ~IsStr(m[field]) THEN m
    ELSE Delete(Put(m, field \o HashSuffix, StrV(Fingerprint(m[field].v))), field)

\* one iteration of the range loop of ProcessFieldsForHash
ProcessField(m, ignored, field) ==
    IF Skipped(field, ignored) \/ ~IsStr(m[field]) THEN m
    ELSE Delete(Put(m, field \o HashSuffix, StrV(Fingerprint(m[field].v))), field)

RECURSIVE ProcessRange(_, _, _)
\* `for field, value := range data` of ProcessFieldsForHash; it deletes only
\* the entry it is at and inserts only keys that end in "_hash"
ProcessRange(m, ignored, order) ==
    IF order = <<>> THEN m
    ELSE ProcessRange(IF Head(order) \notin DOMAIN m THEN m
                      ELSE ProcessField(m, ignored, Head(order)),
                      ignored, Tail(order))

ProcessFieldsForHash_Identity(m, order) == [data |-> m, err |-> "nil"]

\* ProcessFieldsForHash always returns nil
ProcessFieldsForHash(m, order) ==
    [data |-> Delete(ProcessRange(m, IgnoreConfig(m), order), IgnoreKey), err |-> "nil"]

----------------------------------------------------------------------------
(* Typed-Record Traversal Engine.  A struct is a function from its field   *)
(* names to their values (a string its bytes, a slice a sequence, a nested *)
(* struct a function again).  Reflection yields the fields of a struct     *)
(* type in declaration order, each with its kind, the type it nests and    *)
(* whether it carries the tag encryption:"true".                           *)

\* reflect.StructField
Field(name, kind, elem, marked) ==
    [name |-> name, kind |-> kind, elem |-> elem, marked |-> marked]

\* models.Staff with the marker on Email too
StaffFields_EmailMarked ==
    << Field("UUID", "string", "", FALSE),
       Field("RealName", "string", "", TRUE),
       Field("Nickname", "string", "", TRUE),
       Field("Email", "string", "", TRUE),
       Field("OfficialEmail", "string", "", FALSE),
       Field("PhoneNumber", "string", "", TRUE),
       Field("HighSchoolStage", "string", "", FALSE),
       Field("City", "string", "", TRUE),
       Field("School", "string", "", TRUE),
       Field("NationalID", "string", "", FALSE),
       Field("StudentCard", "struct", "Card", TRUE),
       Field("IDCard", "struct", "Card", TRUE),
       Field("EmergencyContact", "slice", "EmergencyContact", TRUE),
       Field("DiscordID", "string", "", FALSE),
       Field("Introduction", "string", "", TRUE),
       Field("Choicereason", "string", "", TRUE),
       Field("RelevantExperience", "string", "", TRUE),
       Field("SignatureUrl", "string", "", FALSE),
       Field("CurrentGroup", "string", "", FALSE),
       Field("PermissionLevel", "int", "", FALSE),
       Field("TeamLeader", "string", "", FALSE),
       Field("ApplyMessage", "string", "", FALSE),
       Field("CreatedAt", "struct", "Time", FALSE) >>

\* models.Staff
StaffFields ==
    << Field("UUID", "string", "", FALSE),
       Field("RealName", "string", "", TRUE),
       Field("Nickname", "string", "", TRUE),
       Field("Email", "string", "", FALSE),
       Field("OfficialEmail", "string", "", FALSE),
       Field("PhoneNumber", "string", "", TRUE),
       Field("HighSchoolStage", "string", "", FALSE),
       Field("City", "string", "", TRUE),
       Field("School", "string", "", TRUE),
       Field("NationalID", "string", "", FALSE),
       Field("StudentCard", "struct", "Card", TRUE),
       Field("IDCard", "struct", "Card", TRUE),
       Field("EmergencyContact", "slice", "EmergencyContact", TRUE),
       Field("DiscordID", "string", "", FALSE),
       Field("Introduction", "string", "", TRUE),
       Field("Choicereason", "string", "", TRUE),
       Field("RelevantExperience", "string", "", TRUE),
       Field("SignatureUrl", "string", "", FALSE),
       Field("CurrentGroup", "string", "", FALSE),
       Field("PermissionLevel", "int", "", FALSE),
       Field("TeamLeader", "string", "", FALSE),
       Field("ApplyMessage", "string", "", FALSE),
       Field("CreatedAt", "struct", "Time", FALSE) >>

\* models.UpdateStaff
UpdateStaffFields ==
    << Field("RealName", "string", "", TRUE),
       Field("Nickname", "string", "", TRUE),
       Field("Email", "string", "", FALSE),
       Field("OfficialEmail", "string", "", FALSE),
       Field("PhoneNumber", "string", "", TRUE),
       Field("HighSchoolStage", "string", "", FALSE),
       Field("City", "string", "", TRUE),
       Field("School", "string", "", TRUE),
       Field("NationalID", "string", "", FALSE),
       Field("StudentCard", "struct", "Card", TRUE),
       Field("IDCard", "struct", "Card", TRUE),
       Field("EmergencyContact", "slice", "EmergencyContact", TRUE),
       Field("DiscordID", "string", "", FALSE),
       Field("Introduction", "string", "", TRUE),
       Field("CurrentGroup", "string", "", FALSE),
       Field("TeamLeader", "string", "", FALSE),
       Field("ApplyMessage", "string", "", FALSE),
       Field("PermissionLevel", "int", "", FALSE) >>

\* models.Card
CardFields ==
    << Field("Front", "string", "", TRUE),
       Field("Back", "string", "", TRUE) >>

\* models.EmergencyContact
EmergencyContactFields ==
    << Field("Name", "string", "", TRUE),
       Field("Relationship", "string", "", TRUE),
       Field("Phone", "string", "", TRUE) >>

\* t.NumField(), t.Field(i)
Fields(t) ==
    CASE t = "Staff" -> StaffFields
      [] t = "UpdateStaff" -> UpdateStaffFields
      [] t = "Card" -> CardFields
      [] t = "EmergencyContact" -> EmergencyContactFields

RECURSIVE IsZero(_, _)
\* reflect.Value.IsZero: a struct is zero when all its fields are
IsZero(fd, x) ==
    CASE fd.kind = "string" -> x = <<>>
      [] fd.kind = "slice" -> x = <<>>
      [] fd.kind = "int" -> x = 0
      [] fd.kind = "struct" ->
            \A i \in 1..Len(Fields(fd.elem)) :
                IsZero(Fields(fd.elem)[i], x[Fields(fd.elem)[i].name])

\* an isEmptyValue that finds nothing empty
isEmptyValue_Never(fd, x) == FALSE

isEmptyValue(fd, x) ==
    CASE fd.kind = "string" -> Len(x) = 0
      [] fd.kind = "slice" -> Len(x) = 0
      [] OTHER -> IsZero(fd, x)

\* the text EncryptStructFields compares a codec error with
SkippedErrorText == "String already encrypted"

\* a traversal so far: the value as changed in place, the error met, and
\* what rand.Reader has yet to deliver
Walk(x, err, ivs) == [data |-> x, err |-> err, ivs |-> ivs]

\* `if err != nil { if err.Error() == "String already encrypted" { continue }
\* return err }; fieldValue.SetString(encryptedValue)`
LeafEncrypted(x, ivs, enc) ==
    IF enc.err # "nil"
    THEN IF enc.err = SkippedErrorText THEN Walk(x, "nil", ivs)
         ELSE Walk(x, enc.err, ivs)
    ELSE Walk(enc.val, "nil", Tail(ivs))

\* the string branch of EncryptStructFields
EncryptLeaf(k, x, ivs) == LeafEncrypted(x, ivs, encryptAES256(k, x, Head(ivs)))

\* `if err != nil { return err }; fieldValue.SetString(decryptedValue)`
LeafDecrypted(x, ivs, dec) ==
    IF dec.err # "nil" THEN Walk(x, dec.err, ivs)
    ELSE Walk(dec.val, "nil", ivs)

\* the string branch of DecryptStructFields
DecryptLeaf(k, x, ivs) == LeafDecrypted(x, ivs, decryptAES256(k, x))

\* the struct x after the traversal w of its field `name`
SetField(x, name, w) == Walk([x EXCEPT ![name] = w.data], w.err, w.ivs)

\* the slice xs after the traversal w of its element j
SetElem(xs, j, w) == Walk([xs EXCEPT ![j] = w.data], w.err, w.ivs)

\* a loop over the elements that descends into none of them
SliceLoop_Skip(encrypt, k, t, j, w) == w

RECURSIVE StructLoop(_, _, _, _, _)
RECURSIVE SliceLoop(_, _, _, _, _)
\* the body of the loop over the fields, for the field fd of the struct x:
\* of EncryptStructFields (encrypt) or of DecryptStructFields (~encrypt)
VisitField(encrypt, k, fd, x, ivs) ==
    IF ~fd.marked \/ isEmptyValue(fd, x[fd.name]) THEN Walk(x, "nil", ivs)
    ELSE SetField(x, fd.name,
             CASE fd.kind = "slice" ->
                      SliceLoop(encrypt, k, fd.elem, 1, Walk(x[fd.name], "nil", ivs))
               [] fd.kind = "struct" ->
                      StructLoop(encrypt, k, fd.elem, 1, Walk(x[fd.name], "nil", ivs))
               [] fd.kind = "string" ->
                      IF encrypt THEN EncryptLeaf(k, x[fd.name], ivs)
                      ELSE DecryptLeaf(k, x[fd.name], ivs)
               [] OTHER -> Walk(x[fd.name], "nil", ivs))

\* `for i := 0; i < t.NumField(); i++`, from field i on, of a struct of type
\* t; it returns at the first error
StructLoop(encrypt, k, t, i, w) ==
    IF w.err # "nil" \/ i > Len(Fields(t)) THEN w
    ELSE StructLoop(encrypt, k, t, i + 1,
                    VisitField(encrypt, k, Fields(t)[i], w.data, w.ivs))

\* `for j := 0; j < fieldValue.Len(); j++`, from element j on, of a slice of
\* structs of type t
SliceLoop(encrypt, k, t, j, w) ==
    IF w.err # "nil" \/ j > Len(w.data) THEN w
    ELSE SliceLoop(encrypt, k, t, j + 1,
                   SetElem(w.data, j,
                           StructLoop(encrypt, k, t, 1, Walk(w.data[j], "nil", w.ivs))))

\* what the caller has: the struct as the traversal left it, and the error
TraversalResult(w) == [data |-> w.data, err |-> w.err]

EncryptStructFields(k, t, x, ivs) ==
    TraversalResult(StructLoop(TRUE, k, t, 1, Walk(x, "nil", ivs)))

DecryptStructFields(k, t, x) ==
    TraversalResult(StructLoop(FALSE, k, t, 1, Walk(x, "nil", <<>>)))

----------------------------------------------------------------------------
(* Storage and the handlers of the dynamic collections.  A collection is   *)
(* the sequence of its documents in insertion order.                       *)

\* a primitive.ObjectID
OidV(n) == [kind |-> "objectid", v |-> <<n>>, names |-> {}]

IdKey == "_id"

ErrDuplicateKey == "E11000 duplicate key error"

\* collection.InsertOne: the driver gives a document that has no _id a new
\* ObjectID, and the server rejects an _id the collection already holds
InsertOne(coll, doc) ==
    LET d == IF IdKey \in DOMAIN doc THEN doc ELSE Put(doc, IdKey, OidV(Len(coll) + 1))
    IN  IF \E i \in 1..Len(coll) : coll[i][IdKey] = d[IdKey]
        THEN [coll |-> coll, err |-> ErrDuplicateKey]
        ELSE [coll |-> Append(coll, d), err |-> "nil"]

\* queries.CreateData
CreateData(coll, data) == InsertOne(coll, data)

\* a filter of plain field: value pairs selects the documents that hold each
\* of these values
Matches(doc, filter) ==
    \A f \in DOMAIN filter : f \in DOMAIN doc /\ doc[f] = filter[f]

\* collection.Find
Find(coll, filter) == SelectSeq(coll, LAMBDA d : Matches(d, filter))

RECURSIVE Perms(_)
\* the orders in which a range loop may produce the keys of a map
Perms(K) ==
    IF K = {} THEN {<<>>}
    ELSE UNION {{<<x>> \o p : p \in Perms(K \ {x})} : x \in K}

\* what DecryptFieldsByConfig can return on a decoded document, over the
\* orders in which its range loop may visit the fields
DecryptOutcomes(k, doc) == {DecryptFieldsByConfig(k, doc, o) : o \in Perms(DOMAIN doc)}

RECURSIVE CursorLoop(_, _, _)
\* `for cursor.Next(...)` of queries.GetData: a document on which
\* DecryptFieldsByConfig returns an error is left out; a panic of
\* decryptAES256 unwinds the whole call
CursorLoop(k, found, results) ==
    IF found = <<>> THEN {[results |-> results, err |-> "nil"]}
    ELSE UNION { IF r.err = Panic THEN {[results |-> <<>>, err |-> Panic]}
                 ELSE IF r.err # "nil" THEN CursorLoop(k, Tail(found), results)
                 ELSE CursorLoop(k, Tail(found), Append(results, r.data))
                 : r \in DecryptOutcomes(k, Head(found)) }

\* queries.GetData: the results it can return
QueriesGetData(k, coll, filter) == CursorLoop(k, Find(coll, filter), <<>>)

\* utils.SimpleResponse, with the request it answers; `data` is the error
\* text or empty, `results` the documents sent
Respond(handler, body, code, message, data, results) ==
    [handler |-> handler, body |-> body, code |-> code, message |-> message,
     data |-> data, results |-> results]

\* a panic in a handler: the router has no recovery middleware, net/http
\* closes the connection and no response is written
Aborted(handler, body) == Respond(handler, body, 0, "", Panic, <<>>)

\* a call of the storage driver: its filter and the document (or the $set
\* document) it carries
Op(op, filter, doc) == [op |-> op, filter |-> filter, doc |-> doc]

ErrNoDocuments == "mongo: no documents in result"

\* the documents of the collection whose _id equals id
HitsById(coll, id) == {i \in 1..Len(coll) : IdKey \in DOMAIN coll[i] /\ coll[i][IdKey] = id}

FirstHit(I) == CHOOSE i \in I : \A j \in I : i <= j

\* queries.UpdateDataByID: the _id is taken out of the new data, the first
\* document with that _id gets the remaining fields set
UpdateDataByID(coll, id, newData) ==
    IF HitsById(coll, id) = {}
    THEN [coll |-> coll, err |-> ErrNoDocuments]
    ELSE [coll |-> [coll EXCEPT ![FirstHit(HitsById(coll, id))] = Delete(newData, IdKey) @@ @],
          err |-> "nil"]

----------------------------------------------------------------------------
(* Storage and the handlers of the staff collection.  A stored staff       *)
(* document is the models.Staff it was marshalled from: _id is UUID.       *)

\* FindOne(bson.M{field: value}).Decode(&staff)
FindOneBy(coll, field, value) ==
    IF \E i \in 1..Len(coll) : coll[i][field] = value
    THEN [doc |-> coll[FirstHit({i \in 1..Len(coll) : coll[i][field] = value})], err |-> "nil"]
    ELSE [doc |-> <<>>, err |-> ErrNoDocuments]

\* queries.CreateStaffQueue
CreateStaffQueue(coll, staff) ==
    IF \E i \in 1..Len(coll) : coll[i].UUID = staff.UUID
    THEN [coll |-> coll, err |-> ErrDuplicateKey]
    ELSE [coll |-> Append(coll, staff), err |-> "nil"]

\* utils.IsZeroValue: an empty string, a zero number, false; never a struct
\* or a slice
IsZeroValue(fd, x) ==
    CASE fd.kind = "string" -> Len(x) = 0
      [] fd.kind = "int" -> x = 0
      [] OTHER -> FALSE

\* the keys UpdateStaffQueue puts under $set
UpdateFields(upd) ==
    {UpdateStaffFields[i].name : i \in {j \in 1..Len(UpdateStaffFields) :
        ~IsZeroValue(UpdateStaffFields[j], upd[UpdateStaffFields[j].name])}}

ErrNoFields == "no fields to update"

\* queries.UpdateStaffQueue: UpdateOne sets the fields on the document whose
\* _id is uuid, if there is one
UpdateStaffQueue(coll, uuid, upd) ==
    IF UpdateFields(upd) = {} THEN [coll |-> coll, err |-> ErrNoFields]
    ELSE [coll |-> [i \in 1..Len(coll) |->
                      IF coll[i].UUID = uuid
                      THEN [f \in DOMAIN coll[i] |->
                              IF f \in UpdateFields(upd) THEN upd[f] ELSE coll[i][f]]
                      ELSE coll[i]],
          err |-> "nil"]

\* the bson key of each field of models.Staff
BsonKeys ==
    [ UUID |-> "_id", RealName |-> "real_name", Nickname |-> "nickname",
      Email |-> "email", OfficialEmail |-> "official_email",
      PhoneNumber |-> "phone_number", HighSchoolStage |-> "high_school_stage",
      City |-> "city", School |-> "school", NationalID |-> "national_id",
      StudentCard |-> "student_card", IDCard |-> "id_card",
      EmergencyContact |-> "emergency_contact", DiscordID |-> "discord_id",
      Introduction |-> "introduction", Choicereason |-> "choicereason",
      RelevantExperience |-> "relevant_experience", SignatureUrl |-> "signature_url",
      CurrentGroup |-> "current_group", PermissionLevel |-> "permission_level",
      TeamLeader |-> "team_leader", ApplyMessage |-> "apply_message",
      CreatedAt |-> "created_at" ]

\* var staff models.Staff
ZeroStaff ==
    [ UUID |-> <<>>, RealName |-> <<>>, Nickname |-> <<>>, Email |-> <<>>,
      OfficialEmail |-> <<>>, PhoneNumber |-> <<>>, HighSchoolStage |-> <<>>,
      City |-> <<>>, School |-> <<>>, NationalID |-> <<>>,
      StudentCard |-> [Front |-> <<>>, Back |-> <<>>],
      IDCard |-> [Front |-> <<>>, Back |-> <<>>],
      EmergencyContact |-> <<>>, DiscordID |-> <<>>, Introduction |-> <<>>,
      Choicereason |-> <<>>, RelevantExperience |-> <<>>, SignatureUrl |-> <<>>,
      CurrentGroup |-> <<>>, PermissionLevel |-> 0, TeamLeader |-> <<>>,
      ApplyMessage |-> <<>>, CreatedAt |-> 0 ]

\* the fields of models.Staff of kind string
StringFields == {StaffFields[i].name : i \in {j \in 1..Len(StaffFields) :
                                                 StaffFields[j].kind = "string"}}

\* Decode(&staff) of a document whose values under the keys of string fields
\* are strings: a key the document lacks leaves the field zero, a key the
\* struct lacks is dropped
DecodeStaff(doc) ==
    [f \in DOMAIN ZeroStaff |->
        IF f \in StringFields /\ BsonKeys[f] \in DOMAIN doc /\ IsStr(doc[BsonKeys[f]])
        THEN doc[BsonKeys[f]].v
        ELSE ZeroStaff[f]]

\* the fields of a models.GetStaff that GetStaffByAnything puts in the query
StaffFilter(q) ==
    {f \in DOMAIN q :
        ~IsZeroValue([kind |-> IF f = "PermissionLevel" THEN "int" ELSE "string"], q[f])}

\* collection.Find with that query
FindStaff(coll, q) ==
    SelectSeq(coll, LAMBDA d : \A f \in StaffFilter(q) : d[f] = q[f])

ErrDecryptStaffs == "error decrypt staffs data"

\* the body of `for cursor.Next(...)` of GetStaffByAnything, from the list w
\* holds and the outcome r of DecryptStructFields on the decoded document
StaffDecrypted(w, r) ==
    IF r.err = Panic THEN [staffs |-> <<>>, err |-> Panic]
    ELSE IF r.err # "nil" THEN [staffs |-> <<>>, err |-> ErrDecryptStaffs]
    ELSE [staffs |-> Append(w.staffs, r.data), err |-> "nil"]

RECURSIVE StaffCursorLoop_SkipFailed(_, _, _)
\* a loop that leaves out the records that fail, as queries.GetData does
StaffCursorLoop_SkipFailed(k, found, w) ==
    IF found = <<>> THEN w
    ELSE StaffCursorLoop_SkipFailed(k, Tail(found),
             IF DecryptStructFields(k, "Staff", Head(found)).err # "nil" THEN w
             ELSE StaffDecrypted(w, DecryptStructFields(k, "Staff", Head(found))))

RECURSIVE StaffCursorLoop(_, _, _)
\* `for cursor.Next(...)` of GetStaffByAnything: it returns at the first
\* record DecryptStructFields fails on
StaffCursorLoop(k, found, w) ==
    IF w.err # "nil" \/ found = <<>> THEN w
    ELSE StaffCursorLoop(k, Tail(found),
                         StaffDecrypted(w, DecryptStructFields(k, "Staff", Head(found))))

\* queries.GetStaffByAnything
GetStaffByAnything(k, coll, q) ==
    StaffCursorLoop(k, FindStaff(coll, q), [staffs |-> <<>>, err |-> "nil"])

----------------------------------------------------------------------------
(* Inputs *)

\* how many different IVs rand.Reader may deliver in a run
NumIVs == 2

\* an IV: aes.BlockSize bytes
IVOf(n) == [i \in 1..BlockSize |-> ((n * 97) + (i * 29) + (n * i)) % 256]

IVs == {IVOf(n) : n \in 1..NumIVs}

Passphrases == {Bytes("hunter2"), Bytes("")}

\* an envelope this process did not make: the tag and 19 well-formed bytes
ForeignEnvelope == Tag \o Base64Encode([i \in 1..19 |-> (i * 13) % 256])

Plaintexts ==
    { Bytes(""), Bytes("a"), Bytes("plain"), Bytes("secret"), Bytes("a@b.com"),
      Bytes("0123456789abcdefXYZ"),   \* longer than one cipher block
      Bytes("AES256"), Bytes("aes256:x") }

\* strings that carry the scheme tag
Tagged ==
    { Tag,                     \* empty payload
      Tag \o Bytes("x"),       \* payload that is no base64
      Tag \o Bytes("QUJD"),    \* base64 of three bytes: shorter than an IV
      Tag \o Bytes("!!!!"),
      ForeignEnvelope }

\* a scenario leaves the variables of the other scenarios empty
CodecIdle ==
    plaintext = <<>> /\ encCalls = <<>> /\ decCalls = <<>> /\ reCalls = <<>> /\ calls = <<>>

DynIdle == requestData = <<>> /\ encOut = <<>> /\ decOut = <<>> /\ hashOut = <<>>

TypedIdle == entity = <<>> /\ encStruct = <<>> /\ reStruct = <<>> /\ decStruct = <<>>

StoreIdle ==
    db = <<>> /\ origin = <<>> /\ response = <<>> /\ staffColl = <<>> /\ issued = <<>>

----------------------------------------------------------------------------
(* Codec scenario: encryptAES256 twice on one string, decryptAES256 on    *)
(* the string or on an envelope made from it, encryptAES256 on an envelope *)

CodecInit ==
    /\ pc = "codec"
    /\ passphrase \in Passphrases
    /\ key = DeriveKey(passphrase)
    /\ plaintext \in Plaintexts \cup Tagged
    /\ encCalls = <<>>
    /\ decCalls = <<>>
    /\ reCalls = <<>>
    /\ calls = <<>>
    /\ DynIdle /\ TypedIdle /\ StoreIdle

Envelopes == {encCalls[i].res.val : i \in {j \in 1..Len(encCalls) : encCalls[j].res.err = "nil"}}

CodecEncrypt(iv) ==
    /\ pc = "codec"
    /\ Len(encCalls) < 2
    /\ encCalls' = Append(encCalls, [iv |-> iv, res |-> encryptAES256(key, plaintext, iv)])
    /\ UNCHANGED <<key, passphrase, pc, plaintext, decCalls, reCalls, calls, dynVars, typedVars, storeVars>>

CodecDecrypt(c) ==
    /\ pc = "codec"
    /\ decCalls' = <<[in |-> c, res |-> decryptAES256(key, c)]>>
    /\ UNCHANGED <<key, passphrase, pc, plaintext, encCalls, reCalls, calls, dynVars, typedVars, storeVars>>

CodecReEncrypt(c, iv) ==
    /\ pc = "codec"
    /\ reCalls' = <<[in |-> c, iv |-> iv, res |-> encryptAES256(key, c, iv)]>>
    /\ UNCHANGED <<key, passphrase, pc, plaintext, encCalls, decCalls, calls, dynVars, typedVars, storeVars>>

CodecNext ==
    \/ \E iv \in IVs : CodecEncrypt(iv)
    \/ \E c \in {plaintext} \cup Envelopes : CodecDecrypt(c)
    \/ \E c \in Envelopes, iv \in IVs : CodecReEncrypt(c, iv)

SpecCodec == CodecInit /\ [][CodecNext]_vars

----------------------------------------------------------------------------
(* Dynamic scenario: EncryptFieldsByConfig on a request document and       *)
(* DecryptFieldsByConfig on what it left (the document as stored), or      *)
(* ProcessFieldsForHash on the same map taken as a filter                  *)

S(x) == StrV(Bytes(x))

\* {"note": true}
IgnoreNote == ObjV({"note"})

ExemptionDoc == ("note" :> S("plain")) @@ ("bio" :> S("secret")) @@ (IgnoreKey :> IgnoreNote)

ExemptionListDoc ==
    ("note" :> S("plain")) @@ ("bio" :> S("secret")) @@ (IgnoreKey :> ArrV({"note"}))

EmailDoc == "email" :> S("a@b.com")

Docs ==
    { EmailDoc,
      ExemptionDoc,
      ExemptionListDoc,
      ("note" :> S("plain")) @@ (IgnoreKey :> S("note")),
      ("a" :> S("secret")) @@ ("a_hash" :> S("plain")),
      ("a" :> S("a")) @@ ("a_hash_hash" :> S("plain")),
      ("a" :> S("secret")) @@ ("b" :> S("secret")),
      ("a" :> S("0123456789abcdefXYZ")) @@ ("n" :> NumV(5))
          @@ ("sub" :> ObjV({"x"})) @@ ("list" :> ArrV({"a"})),
      "email" :> S(""),
      "a" :> StrV(Tag \o Bytes("x")),
      ("a" :> StrV(Tag \o Bytes("x"))) @@ (IgnoreKey :> ObjV({"b"})),
      ("a" :> S("secret")) @@ ("b" :> StrV(ForeignEnvelope)),
      ("note" :> StrV(ForeignEnvelope)) @@ ("bio" :> S("secret")) @@ (IgnoreKey :> IgnoreNote),
      ("note" :> StrV(Tag \o Bytes("!!!!"))) @@ ("email" :> S("a@b.com"))
          @@ (IgnoreKey :> IgnoreNote),
      ("x_hash" :> StrV(Tag \o Bytes("QUJD"))) @@ ("email" :> S("a@b.com")),
      ("_id" :> S("a")) @@ ("email" :> S("a@b.com")),
      ("_id" :> NumV(5)) @@ ("bio" :> S("plain")) @@ (IgnoreKey :> ObjV({"bio"})),
      IgnoreKey :> IgnoreNote }

\* one IV is read for a string-valued field the loop does not skip, unless
\* the field carries the tag
Draws(m) ==
    [1..Cardinality({f \in DOMAIN m : IsStr(m[f]) /\ ~Skipped(f, IgnoreConfig(m))}) -> IVs]

DynInit ==
    /\ pc = "dynamic"
    /\ passphrase \in Passphrases
    /\ key = DeriveKey(passphrase)
    /\ requestData \in Docs
    /\ encOut = <<>> /\ decOut = <<>> /\ hashOut = <<>>
    /\ CodecIdle /\ TypedIdle /\ StoreIdle

\* what a call of EncryptFieldsByConfig left, with the order in which its
\* range loop produced the keys
Ranged(r, order) == [data |-> r.data, err |-> r.err, order |-> order]

DynEncrypt(order, ivs) ==
    /\ pc = "dynamic"
    /\ encOut = <<>> /\ hashOut = <<>>
    /\ encOut' = <<Ranged(EncryptFieldsByConfig(key, requestData, order, ivs), order)>>
    /\ UNCHANGED <<key, passphrase, pc, codecVars, requestData, decOut, hashOut,
                   typedVars, storeVars>>

\* the map EncryptFieldsByConfig left is what SaveData stores
Stored == encOut[1].data

DynDecrypt(order) ==
    /\ pc = "dynamic"
    /\ encOut # <<>> /\ encOut[1].err = "nil"
    /\ decOut = <<>>
    /\ decOut' = <<DecryptFieldsByConfig(key, Stored, order)>>
    /\ UNCHANGED <<key, passphrase, pc, codecVars, requestData, encOut, hashOut,
                   typedVars, storeVars>>

DynProcess(order) ==
    /\ pc = "dynamic"
    /\ encOut = <<>> /\ hashOut = <<>>
    /\ hashOut' = <<ProcessFieldsForHash(requestData, order)>>
    /\ UNCHANGED <<key, passphrase, pc, codecVars, requestData, encOut, decOut,
                   typedVars, storeVars>>

DynNext ==
    \/ \E order \in Perms(DOMAIN requestData), ivs \in Draws(requestData) :
          DynEncrypt(order, ivs)
    \/ \E order \in Perms(IF encOut = <<>> THEN {} ELSE DOMAIN Stored) : DynDecrypt(order)
    \/ \E order \in Perms(DOMAIN requestData) : DynProcess(order)

SpecDynamic == DynInit /\ [][DynNext]_vars

----------------------------------------------------------------------------
(* Typed scenario: EncryptStructFields on a models.Staff, then             *)
(* EncryptStructFields again or DecryptStructFields on what it left        *)

Card(front, back) == [Front |-> Bytes(front), Back |-> Bytes(back)]

Contact(name, relationship, phone) ==
    [Name |-> Bytes(name), Relationship |-> Bytes(relationship), Phone |-> Bytes(phone)]

\* a Staff whose marked fields are all empty
BlankStaff ==
    [ UUID |-> Bytes("u-1"), RealName |-> <<>>, Nickname |-> <<>>,
      Email |-> Bytes("a@b.com"), OfficialEmail |-> Bytes("o@b.com"),
      PhoneNumber |-> <<>>, HighSchoolStage |-> Bytes("1"), City |-> <<>>,
      School |-> <<>>, NationalID |-> Bytes("A1"),
      StudentCard |-> Card("", ""), IDCard |-> Card("", ""),
      EmergencyContact |-> <<>>, DiscordID |-> Bytes("d1"),
      Introduction |-> <<>>, Choicereason |-> <<>>, RelevantExperience |-> <<>>,
      SignatureUrl |-> <<>>, CurrentGroup |-> Bytes("pending"),
      PermissionLevel |-> 1, TeamLeader |-> <<>>, ApplyMessage |-> <<>>,
      CreatedAt |-> 1 ]

\* a Staff that passes the binding rules of CreateNewStaff
FullStaff ==
    [BlankStaff EXCEPT !.RealName = Bytes("Amy"), !.PhoneNumber = Bytes("0912"),
                       !.City = Bytes("Tp"),
                       !.EmergencyContact = <<Contact("Bo", "dad", "09")>>]

\* a Staff whose RealName is an envelope already
ResubmittedStaff ==
    [BlankStaff EXCEPT !.RealName = ForeignEnvelope, !.Nickname = Bytes("amy")]

Staffs ==
    { BlankStaff,
      FullStaff,
      ResubmittedStaff,
      [BlankStaff EXCEPT !.RealName = Bytes("Amy"), !.StudentCard = Card("f", "")],
      [BlankStaff EXCEPT !.Nickname = Bytes("amy"), !.IDCard = Card("", "b"),
                         !.UUID = Tag \o Bytes("u-1")],
      [BlankStaff EXCEPT !.EmergencyContact =
                             << Contact("Bo", "", ""),
                                [Contact("", "mom", "") EXCEPT !.Name = Tag \o Bytes("x")] >>],
      [BlankStaff EXCEPT !.RealName = Bytes("0123456789abcdefXYZ")],
      [BlankStaff EXCEPT !.IDCard = Card("f", ""),
                         !.EmergencyContact = <<Contact("Bo", "", "")>>] }

RECURSIVE SumOf(_)
SumOf(s) == IF s = <<>> THEN 0 ELSE Head(s) + SumOf(Tail(s))

RECURSIVE Reads(_, _)
\* how many IVs EncryptStructFields can read from rand.Reader on x: one for
\* each marked non-empty string leaf that does not carry the tag
Reads(t, x) ==
    SumOf([i \in 1..Len(Fields(t)) |->
             LET fd == Fields(t)[i]
                 fv == x[fd.name]
             IN  IF ~fd.marked \/ isEmptyValue(fd, fv) THEN 0
                 ELSE CASE fd.kind = "slice" ->
                              SumOf([j \in 1..Len(fv) |-> Reads(fd.elem, fv[j])])
                        [] fd.kind = "struct" -> Reads(fd.elem, fv)
                        [] fd.kind = "string" -> IF HasPrefix(fv, Tag) THEN 0 ELSE 1
                        [] OTHER -> 0])

StructDraws(x) == [1..Reads("Staff", x) -> IVs]

TypedInit ==
    /\ pc = "typed"
    /\ passphrase \in Passphrases
    /\ key = DeriveKey(passphrase)
    /\ entity \in Staffs
    /\ encStruct = <<>> /\ reStruct = <<>> /\ decStruct = <<>>
    /\ CodecIdle /\ DynIdle /\ StoreIdle

TypedEncrypt(ivs) ==
    /\ pc = "typed"
    /\ encStruct = <<>>
    /\ encStruct' = <<EncryptStructFields(key, "Staff", entity, ivs)>>
    /\ UNCHANGED <<key, passphrase, pc, codecVars, dynVars, entity, reStruct, decStruct,
                   storeVars>>

\* the struct as the first call left it
Encrypted == encStruct[1].data

TypedEncryptAgain(ivs) ==
    /\ pc = "typed"
    /\ encStruct # <<>> /\ encStruct[1].err = "nil"
    /\ reStruct = <<>>
    /\ reStruct' = <<EncryptStructFields(key, "Staff", Encrypted, ivs)>>
    /\ UNCHANGED <<key, passphrase, pc, codecVars, dynVars, entity, encStruct, decStruct,
                   storeVars>>

\* what a call of DecryptStructFields on the struct x left
Loaded(x, r) == [in |-> x, data |-> r.data, err |-> r.err]

TypedDecrypt ==
    /\ pc = "typed"
    /\ encStruct # <<>> /\ encStruct[1].err = "nil"
    /\ decStruct = <<>>
    /\ decStruct' = <<Loaded(Encrypted, DecryptStructFields(key, "Staff", Encrypted))>>
    /\ UNCHANGED <<key, passphrase, pc, codecVars, dynVars, entity, encStruct, reStruct,
                   storeVars>>

\* DecryptStructFields on the struct as a stored document decoded into it
TypedDecryptStored ==
    /\ pc = "typed"
    /\ encStruct = <<>>
    /\ decStruct = <<>>
    /\ decStruct' = <<Loaded(entity, DecryptStructFields(key, "Staff", entity))>>
    /\ UNCHANGED <<key, passphrase, pc, codecVars, dynVars, entity, encStruct, reStruct,
                   storeVars>>

TypedNext ==
    \/ \E ivs \in StructDraws(entity) : TypedEncrypt(ivs)
    \/ \E ivs \in StructDraws(IF encStruct = <<>> THEN BlankStaff ELSE Encrypted) :
          TypedEncryptAgain(ivs)
    \/ TypedDecrypt
    \/ TypedDecryptStored

SpecTyped == TypedInit /\ [][TypedNext]_vars

----------------------------------------------------------------------------
(* Store scenario: SaveData, EditData and GetData requests on one dynamic  *)
(* collection (the :collection parameter of the routes), or CreateNewStaff *)
(* and UpdateStaff requests on the staff collection.  Requests on          *)
(* different collections share no state, so a run addresses one            *)
(* collection: `pc` names it.                                              *)

\* how many documents the collection may come to hold
MaxDocs == 2

\* request bodies of SaveData
StoreBodies ==
    { EmailDoc,
      \* an exempt field holding a tagged string that is no base64
      ("email" :> S("a@b.com")) @@ ("note" :> StrV(Tag \o Bytes("!!!!")))
          @@ (IgnoreKey :> IgnoreNote),
      \* a "_hash" field holding a tagged string whose payload is 3 bytes
      ("email" :> S("c@d.com")) @@ ("x_hash" :> StrV(Tag \o Bytes("QUJD"))),
      \* an eligible field that carries the tag
      "a" :> StrV(Tag \o Bytes("x")) }

\* request bodies of SaveData on the collection "profile"
ProfileBodies ==
    { \* an _id of the caller's, and the control field given as a string
      (IdKey :> NumV(5)) @@ (IgnoreKey :> S("bio")),
      (IdKey :> NumV(5)) @@ ("bio" :> S("secret")) }

\* request bodies of EditData
EditBodies ==
    { \* the control field given as a list
      (IdKey :> NumV(5)) @@ ("bio" :> S("plain")) @@ (IgnoreKey :> ArrV({"bio"})),
      \* an eligible field that carries the tag
      (IdKey :> NumV(5)) @@ ("bio" :> StrV(Tag \o Bytes("x"))),
      \* a field made exempt
      (IdKey :> NumV(5)) @@ ("bio" :> S("plain")) @@ (IgnoreKey :> ObjV({"bio"})),
      \* no _id
      "bio" :> S("a") }

\* request bodies of GetData
Filters == { EmailDoc, "email" :> S("c@d.com") }

\* request bodies of GetData on the collection "profile"
ProfileFilters == { ("bio" :> S("plain")) @@ (IgnoreKey :> ObjV({"nick"})) }

\* request bodies of SaveData on the collection "keyed": the caller names the
\* document with a string _id
KeyedBodies == { (IdKey :> S("a")) @@ ("age" :> NumV(1)) }

\* request bodies of EditData on the collection "keyed"
KeyedEdits ==
    { (IdKey :> S("a")) @@ ("age" :> NumV(2)),
      (IdKey :> S("b")) @@ ("age" :> NumV(2)) }

\* request bodies of GetData on the collection "keyed"
KeyedFilters == { IdKey :> S("a") }

\* the collections of the dynamic routes
DataCollections == {"store", "profile", "keyed"}

SaveBodies(collection) ==
    CASE collection = "store" -> StoreBodies
      [] collection = "profile" -> ProfileBodies
      [] collection = "keyed" -> KeyedBodies
      [] OTHER -> {}

EditBodiesOf(collection) ==
    CASE collection = "profile" -> EditBodies
      [] collection = "keyed" -> KeyedEdits
      [] OTHER -> {}

FiltersOf(collection) ==
    CASE collection = "store" -> Filters
      [] collection = "profile" -> ProfileFilters
      [] collection = "keyed" -> KeyedFilters
      [] OTHER -> {}

\* time.Now()
Now == 1

\* request bodies of CreateNewStaff that pass its binding rules
StaffBodies ==
    { FullStaff,
      [FullStaff EXCEPT !.Nickname = Tag \o Bytes("x")] }

\* a models.UpdateStaff with every field zero
BlankUpdate ==
    [ RealName |-> <<>>, Nickname |-> <<>>, Email |-> <<>>, OfficialEmail |-> <<>>,
      PhoneNumber |-> <<>>, HighSchoolStage |-> <<>>, City |-> <<>>, School |-> <<>>,
      NationalID |-> <<>>, StudentCard |-> Card("", ""), IDCard |-> Card("", ""),
      EmergencyContact |-> <<>>, DiscordID |-> <<>>, Introduction |-> <<>>,
      CurrentGroup |-> <<>>, TeamLeader |-> <<>>, ApplyMessage |-> <<>>,
      PermissionLevel |-> 0 ]

\* request bodies of UpdateStaff
UpdateBodies ==
    { [BlankUpdate EXCEPT !.Nickname = Bytes("amy")],
      [BlankUpdate EXCEPT !.Nickname = Tag \o Bytes("x"), !.TeamLeader = Bytes("bo")] }

\* request bodies of SaveData on the collection "staff": a document that
\* names every one of its fields exempt
StaffDocs ==
    { (IdKey :> S("u-7")) @@ ("email" :> S("x@y.com")) @@ ("real_name" :> S("Amy"))
          @@ (IgnoreKey :> ObjV({IdKey, "email", "real_name"})) }

\* a models.GetStaff with every field zero
BlankQuery ==
    [ UUID |-> <<>>, Email |-> <<>>, OfficialEmail |-> <<>>, HighSchoolStage |-> <<>>,
      DiscordID |-> <<>>, CurrentGroup |-> <<>>, PermissionLevel |-> 0,
      TeamLeader |-> <<>>, ApplyMessage |-> <<>> ]

\* request bodies of GetStaffs
Queries == { BlankQuery, [BlankQuery EXCEPT !.Email = Bytes("a@b.com")] }

\* the :id parameter of UpdateStaff
StaffIds == {Bytes("u-1"), Bytes("u-9")}

\* the IVs rand.Reader delivers to one staff request: the IVs in turn, from
\* any of them on
Stream(n) == {[i \in 1..n |-> IVOf(((i + s) % NumIVs) + 1)] : s \in 1..NumIVs}

CreateDraws(x) == Stream(Reads("Staff", x))

UpdateDraws(x) == Stream(Reads("UpdateStaff", x))

\* DATABASE_ENCRYPTION of the deployment the requests go to
Deployed == Bytes("hunter2")

StoreInit ==
    /\ pc \in DataCollections \cup {"staff"}
    /\ passphrase = Deployed
    /\ key = DeriveKey(passphrase)
    /\ db = <<>> /\ origin = <<>> /\ response = <<>>
    /\ staffColl = <<>> /\ issued = <<>>
    /\ CodecIdle /\ DynIdle /\ TypedIdle

\* controllers.SaveData that inserts whatever EncryptFieldsByConfig left
SaveData_PersistAnyway(body, order, ivs) ==
    /\ pc \in DataCollections
    /\ Len(db) < MaxDocs
    /\ LET enc == EncryptFieldsByConfig(key, body, order, ivs)
           ins == CreateData(db, enc.data)
       IN  /\ issued' = <<Op("InsertOne", <<>>, enc.data)>>
           /\ IF ins.err # "nil"
              THEN /\ response' = <<Respond("SaveData", body, 500, "Internal server error",
                                            ins.err, <<>>)>>
                   /\ UNCHANGED <<db, origin>>
              ELSE /\ db' = ins.coll
                   /\ origin' = Append(origin, body)
                   /\ response' = <<Respond("SaveData", body, 201,
                                            "Successfully created new data", "", <<>>)>>
    /\ UNCHANGED <<key, passphrase, pc, codecVars, dynVars, typedVars, staffColl>>

\* controllers.SaveData
SaveData(body, order, ivs) ==
    /\ pc \in DataCollections
    /\ Len(db) < MaxDocs
    /\ LET enc == EncryptFieldsByConfig(key, body, order, ivs)
           ins == CreateData(db, enc.data)
       IN  IF enc.err # "nil"
           THEN /\ response' = <<Respond("SaveData", body, 500, "Error encrypt field",
                                         enc.err, <<>>)>>
                /\ issued' = <<>>
                /\ UNCHANGED <<db, origin>>
           ELSE IF ins.err # "nil"
           THEN /\ response' = <<Respond("SaveData", body, 500, "Internal server error",
                                         ins.err, <<>>)>>
                /\ issued' = <<Op("InsertOne", <<>>, enc.data)>>
                /\ UNCHANGED <<db, origin>>
           ELSE /\ db' = ins.coll
                /\ origin' = Append(origin, body)
                /\ issued' = <<Op("InsertOne", <<>>, enc.data)>>
                /\ response' = <<Respond("SaveData", body, 201,
                                         "Successfully created new data", "", <<>>)>>
    /\ UNCHANGED <<key, passphrase, pc, codecVars, dynVars, typedVars, staffColl>>

\* controllers.GetData
GetData(body, order) ==
    /\ pc \in DataCollections
    /\ LET filter == ProcessFieldsForHash(body, order)
       IN  IF filter.err # "nil"
           THEN /\ response' = <<Respond("GetData", body, 500, "Encryption error",
                                         filter.err, <<>>)>>
                /\ issued' = <<>>
           ELSE /\ issued' = <<Op("Find", filter.data, <<>>)>>
                /\ \E got \in QueriesGetData(key, db, filter.data) :
                    response' =
                        IF got.err = Panic THEN <<Aborted("GetData", body)>>
                        ELSE IF got.err # "nil"
                        THEN <<Respond("GetData", body, 500, "Internal server error",
                                       got.err, <<>>)>>
                        ELSE <<Respond("GetData", body, 200, "Successfully acquired data",
                                       "", got.results)>>
    /\ UNCHANGED <<key, passphrase, pc, codecVars, dynVars, typedVars, db, origin, staffColl>>

\* controllers.EditData that reads the _id after EncryptFieldsByConfig
EditData_IdAfterEncrypt(body, order, ivs) ==
    /\ pc \in DataCollections
    /\ IF IdKey \notin DOMAIN body
       THEN /\ response' = <<Respond("EditData", body, 400, "Missing _id field",
                                     "The _id field is required for updates.", <<>>)>>
            /\ issued' = <<>>
            /\ UNCHANGED db
       ELSE LET enc == EncryptFieldsByConfig(key, body, order, ivs)
                upd == UpdateDataByID(db, enc.data[IdKey], enc.data)
            IN  IF enc.err # "nil"
                THEN /\ response' = <<Respond("EditData", body, 500, "Encryption error",
                                              enc.err, <<>>)>>
                     /\ issued' = <<>>
                     /\ UNCHANGED db
                ELSE /\ issued' = <<Op("UpdateOne", IdKey :> enc.data[IdKey],
                                       Delete(enc.data, IdKey))>>
                     /\ db' = upd.coll
                     /\ response' =
                            IF upd.err # "nil"
                            THEN <<Respond("EditData", body, 500, "Internal server error",
                                           upd.err, <<>>)>>
                            ELSE <<Respond("EditData", body, 200, "Data successfully updated",
                                           "", <<>>)>>
    /\ UNCHANGED <<key, passphrase, pc, codecVars, dynVars, typedVars, origin, staffColl>>

\* controllers.EditData
EditData(body, order, ivs) ==
    /\ pc \in DataCollections
    /\ IF IdKey \notin DOMAIN body
       THEN /\ response' = <<Respond("EditData", body, 400, "Missing _id field",
                                     "The _id field is required for updates.", <<>>)>>
            /\ issued' = <<>>
            /\ UNCHANGED db
       ELSE LET enc == EncryptFieldsByConfig(key, body, order, ivs)
                upd == UpdateDataByID(db, body[IdKey], enc.data)
            IN  IF enc.err # "nil"
                THEN /\ response' = <<Respond("EditData", body, 500, "Encryption error",
                                              enc.err, <<>>)>>
                     /\ issued' = <<>>
                     /\ UNCHANGED db
                ELSE /\ issued' = <<Op("UpdateOne", IdKey :> body[IdKey],
                                       Delete(enc.data, IdKey))>>
                     /\ db' = upd.coll
                     /\ response' =
                            IF upd.err # "nil"
                            THEN <<Respond("EditData", body, 500, "Internal server error",
                                           upd.err, <<>>)>>
                            ELSE <<Respond("EditData", body, 200, "Data successfully updated",
                                           "", <<>>)>>
    /\ UNCHANGED <<key, passphrase, pc, codecVars, dynVars, typedVars, origin, staffColl>>

\* the three FindOne calls of CreateNewStaff, as far as they get
UniquenessChecks(coll, staff) ==
    IF FindOneBy(coll, "Email", staff.Email).err = "nil"
    THEN <<Op("FindOne", "email" :> staff.Email, <<>>)>>
    ELSE IF FindOneBy(coll, "UUID", staff.UUID).err = "nil"
    THEN <<Op("FindOne", "email" :> staff.Email, <<>>),
           Op("FindOne", "_id" :> staff.UUID, <<>>)>>
    ELSE <<Op("FindOne", "email" :> staff.Email, <<>>),
           Op("FindOne", "_id" :> staff.UUID, <<>>),
           Op("FindOne", "discord_id" :> staff.DiscordID, <<>>)>>

\* controllers.CreateNewStaff
CreateNewStaff(body, ivs) ==
    /\ pc = "staff"
    /\ LET enc == EncryptStructFields(key, "Staff", [body EXCEPT !.CreatedAt = Now], ivs)
           staff == enc.data
           ins == CreateStaffQueue(staffColl, staff)
       IN  IF enc.err # "nil"
           THEN /\ response' = <<Respond("CreateNewStaff", body, 400,
                                         "Error encryption your data", enc.err, <<>>)>>
                /\ issued' = <<>>
                /\ UNCHANGED staffColl
           ELSE IF FindOneBy(staffColl, "Email", staff.Email).err = "nil"
           THEN /\ response' = <<Respond("CreateNewStaff", body, 400,
                                         "Email already been used", "", <<>>)>>
                /\ issued' = UniquenessChecks(staffColl, staff)
                /\ UNCHANGED staffColl
           ELSE IF FindOneBy(staffColl, "UUID", staff.UUID).err = "nil"
           THEN /\ response' = <<Respond("CreateNewStaff", body, 400,
                                         "ID already been used", "", <<>>)>>
                /\ issued' = UniquenessChecks(staffColl, staff)
                /\ UNCHANGED staffColl
           ELSE IF FindOneBy(staffColl, "DiscordID", staff.DiscordID).err = "nil"
           THEN /\ response' = <<Respond("CreateNewStaff", body, 400,
                                         "Discord ID already been used", "", <<>>)>>
                /\ issued' = UniquenessChecks(staffColl, staff)
                /\ UNCHANGED staffColl
           ELSE /\ issued' = Append(UniquenessChecks(staffColl, staff),
                                    Op("InsertOne", <<>>, staff))
                /\ staffColl' = ins.coll
                /\ response' =
                       IF ins.err # "nil"
                       THEN <<Respond("CreateNewStaff", body, 500, "Internal server error",
                                      ins.err, <<>>)>>
                       ELSE <<Respond("CreateNewStaff", body, 201,
                                      "Successful create new staff", "", <<>>)>>
    /\ UNCHANGED <<key, passphrase, pc, codecVars, dynVars, typedVars, db, origin>>

\* controllers.UpdateStaff
UpdateStaff(uuid, body, ivs) ==
    /\ pc = "staff"
    /\ LET cur == FindOneBy(staffColl, "UUID", uuid)
           enc == EncryptStructFields(key, "UpdateStaff", body, ivs)
           upd == UpdateStaffQueue(staffColl, uuid, enc.data)
       IN  IF cur.err # "nil"
           THEN /\ response' = <<Respond("UpdateStaff", body, 400, "Staff not found",
                                         cur.err, <<>>)>>
                /\ issued' = <<Op("FindOne", "_id" :> uuid, <<>>)>>
                /\ UNCHANGED staffColl
           ELSE IF enc.err # "nil"
           THEN /\ response' = <<Respond("UpdateStaff", body, 400,
                                         "Error encryption your data", enc.err, <<>>)>>
                /\ issued' = <<Op("FindOne", "_id" :> uuid, <<>>)>>
                /\ UNCHANGED staffColl
           ELSE IF upd.err # "nil"
           THEN /\ response' = <<Respond("UpdateStaff", body, 500,
                                         "Interal server error when updating staff",
                                         upd.err, <<>>)>>
                /\ issued' = <<Op("FindOne", "_id" :> uuid, <<>>)>>
                /\ UNCHANGED staffColl
           ELSE /\ issued' = <<Op("FindOne", "_id" :> uuid, <<>>),
                               Op("UpdateOne", "_id" :> uuid,
                                  [f \in UpdateFields(enc.data) |-> enc.data[f]])>>
                /\ staffColl' = upd.coll
                /\ response' = <<Respond("UpdateStaff", body, 200,
                                         "Successfully updated staff.", "", <<cur.doc>>)>>
    /\ UNCHANGED <<key, passphrase, pc, codecVars, dynVars, typedVars, db, origin>>

\* controllers.SaveData with "staff" for :collection; the collection holds
\* the document as GetStaffQueueById and GetStaffByAnything decode it
SaveStaffData(body, order, ivs) ==
    /\ pc = "staff"
    /\ Len(staffColl) < MaxDocs
    /\ LET enc == EncryptFieldsByConfig(key, body, order, ivs)
           ins == CreateStaffQueue(staffColl, DecodeStaff(enc.data))
       IN  IF enc.err # "nil"
           THEN /\ response' = <<Respond("SaveData", body, 500, "Error encrypt field",
                                         enc.err, <<>>)>>
                /\ issued' = <<>>
                /\ UNCHANGED staffColl
           ELSE /\ issued' = <<Op("InsertOne", <<>>, enc.data)>>
                /\ staffColl' = ins.coll
                /\ response' =
                       IF ins.err # "nil"
                       THEN <<Respond("SaveData", body, 500, "Internal server error",
                                      ins.err, <<>>)>>
                       ELSE <<Respond("SaveData", body, 201,
                                      "Successfully created new data", "", <<>>)>>
    /\ UNCHANGED <<key, passphrase, pc, codecVars, dynVars, typedVars, db, origin>>

\* controllers.GetStaffs
GetStaffs(q) ==
    /\ pc = "staff"
    /\ LET got == GetStaffByAnything(key, staffColl, q)
       IN  response' =
               IF got.err = Panic THEN <<Aborted("GetStaffs", q)>>
               ELSE IF got.err # "nil"
               THEN <<Respond("GetStaffs", q, 500, "Internal server error or request error",
                              "", <<>>)>>
               ELSE <<Respond("GetStaffs", q, 200, "Successful get staffs", "", got.staffs)>>
    /\ issued' = <<Op("Find", [f \in StaffFilter(q) |-> q[f]], <<>>)>>
    /\ UNCHANGED <<key, passphrase, pc, codecVars, dynVars, typedVars, db, origin, staffColl>>

StoreNext ==
    \/ \E body \in SaveBodies(pc) :
          \E order \in Perms(DOMAIN body), ivs \in Draws(body) : SaveData(body, order, ivs)
    \/ \E body \in FiltersOf(pc) : \E order \in Perms(DOMAIN body) : GetData(body, order)
    \/ \E body \in EditBodiesOf(pc) :
          \E order \in Perms(DOMAIN body), ivs \in Draws(body) : EditData(body, order, ivs)
    \/ \E body \in StaffBodies : \E ivs \in CreateDraws(body) : CreateNewStaff(body, ivs)
    \/ \E uuid \in StaffIds, body \in UpdateBodies :
          \E ivs \in UpdateDraws(body) : UpdateStaff(uuid, body, ivs)
    \/ \E body \in StaffDocs :
          \E order \in Perms(DOMAIN body), ivs \in Draws(body) :
              SaveStaffData(body, order, ivs)
    \/ \E q \in Queries : GetStaffs(q)

SpecStore == StoreInit /\ [][StoreNext]_vars

----------------------------------------------------------------------------
(* Concurrent scenario: request-handling goroutines, each inside a call of *)
(* the package.  A call reads the package variable `key` once for every    *)
(* string it gets as far as encrypting or decrypting (aes.NewCipher(key)); *)
(* the package has no other variable.                                      *)

\* how many goroutines are inside the package at a time
NumProcs == 2

Procs == 1..NumProcs

\* a goroutine outside the package
Outside == [at |-> "outside", op |-> "", left |-> 0, ks |-> <<>>]

\* how often a codec call reads the key: encryptAES256 returns before
\* aes.NewCipher on a tagged string, decryptAES256 on an untagged one and on
\* a payload that is no base64
CodecReads(op, s) ==
    IF op = "encryptAES256" THEN (IF HasPrefix(s, Tag) THEN 0 ELSE 1)
    ELSE IF HasPrefix(s, Tag) /\ Base64Decode(SubSeq(s, Len(Tag) + 1, Len(s))).err = "nil"
    THEN 1 ELSE 0

\* how often EncryptStructFields reads the key on x: once for every IV it
\* comes to read
TypedReads(x, ivs) ==
    Len(ivs) - Len(StructLoop(TRUE, DeriveKey(Deployed), "Staff", 1, Walk(x, "nil", ivs)).ivs)

\* how often EncryptFieldsByConfig reads the key on m
DynamicReads(m, order, ivs) ==
    Len(ivs) - Len(EncryptRange(DeriveKey(Deployed), IgnoreConfig(m), order,
                                [data |-> m, err |-> "nil", ivs |-> ivs]).ivs)

\* the entities and documents of the concurrent traversals
BusyStaffs == {FullStaff, ResubmittedStaff}

BusyDocs == {EmailDoc, ExemptionDoc, ("a" :> S("secret")) @@ ("b" :> StrV(ForeignEnvelope))}

\* how often the calls of each kind read the key, over their inputs
EncryptLoads == {CodecReads("encryptAES256", s) : s \in Plaintexts \cup Tagged}

DecryptLoads == {CodecReads("decryptAES256", s) : s \in Plaintexts \cup Tagged}

TypedLoads ==
    UNION {{TypedReads(x, ivs) : ivs \in Stream(Reads("Staff", x))} : x \in BusyStaffs}

DynamicLoads ==
    UNION {UNION {{DynamicReads(m, order, ivs) : ivs \in Draws(m)}
                  : order \in Perms(DOMAIN m)} : m \in BusyDocs}

ConcurrentInit ==
    /\ pc = "concurrent"
    /\ passphrase \in Passphrases
    /\ key = DeriveKey(passphrase)
    /\ calls = [p \in Procs |-> Outside]
    /\ plaintext = <<>> /\ encCalls = <<>> /\ decCalls = <<>> /\ reCalls = <<>>
    /\ DynIdle /\ TypedIdle /\ StoreIdle

\* goroutine p enters the call op, which is to read the key n times
Enter(p, op, n) ==
    /\ pc = "concurrent"
    /\ calls[p].at # "inside"
    /\ calls' = [calls EXCEPT ![p] = [at |-> "inside", op |-> op, left |-> n, ks |-> <<>>]]
    /\ UNCHANGED <<key, passphrase, pc, plaintext, encCalls, decCalls, reCalls,
                   dynVars, typedVars, storeVars>>

\* ReadKey that also assigns the package variable
ReadKey_Assigns(p) ==
    /\ pc = "concurrent"
    /\ calls[p].at = "inside" /\ calls[p].left > 0
    /\ calls' = [calls EXCEPT ![p].left = @ - 1, ![p].ks = Append(@, key)]
    /\ key' = DeriveKey(calls[p].ks \o <<p>>)
    /\ UNCHANGED <<passphrase, pc, plaintext, encCalls, decCalls, reCalls,
                   dynVars, typedVars, storeVars>>

\* block, err := aes.NewCipher(key) in goroutine p
ReadKey(p) ==
    /\ pc = "concurrent"
    /\ calls[p].at = "inside" /\ calls[p].left > 0
    /\ calls' = [calls EXCEPT ![p].left = @ - 1, ![p].ks = Append(@, key)]
    /\ UNCHANGED <<key, passphrase, pc, plaintext, encCalls, decCalls, reCalls,
                   dynVars, typedVars, storeVars>>

\* the call of goroutine p returns
Leave(p) ==
    /\ pc = "concurrent"
    /\ calls[p].at = "inside" /\ calls[p].left = 0
    /\ calls' = [calls EXCEPT ![p].at = "returned"]
    /\ UNCHANGED <<key, passphrase, pc, plaintext, encCalls, decCalls, reCalls,
                   dynVars, typedVars, storeVars>>

ConcurrentNext ==
    \/ \E p \in Procs, n \in EncryptLoads : Enter(p, "encryptAES256", n)
    \/ \E p \in Procs, n \in DecryptLoads : Enter(p, "decryptAES256", n)
    \/ \E p \in Procs, n \in TypedLoads : Enter(p, "EncryptStructFields", n)
    \/ \E p \in Procs, n \in DynamicLoads : Enter(p, "EncryptFieldsByConfig", n)
    \/ \E p \in Procs : ReadKey(p)
    \/ \E p \in Procs : Leave(p)

SpecConcurrent == ConcurrentInit /\ [][ConcurrentNext]_vars


----------------------------------------------------------------------------
(* Racing scenario: each goroutine serves one CreateNewStaff request; the   *)
(* goroutines interleave at the calls to the storage driver                 *)

\* request bodies of the racing CreateNewStaff requests: two share the email,
\* two the discord_id, and any two goroutines may send the same body
RaceBodies ==
    { FullStaff,
      [FullStaff EXCEPT !.UUID = Bytes("u-2"), !.DiscordID = Bytes("d2")],
      [FullStaff EXCEPT !.UUID = Bytes("u-3"), !.Email = Bytes("c@d.com")] }

\* a request after ShouldBindJSON, staff.CreatedAt = time.Now() and
\* EncryptStructFields, over the IVs rand.Reader may deliver
RaceRequests ==
    UNION {{[body |-> b,
             enc |-> EncryptStructFields(DeriveKey(Deployed), "Staff",
                                         [b EXCEPT !.CreatedAt = Now], ivs)]
            : ivs \in CreateDraws(b)} : b \in RaceBodies}

\* a goroutine that has no request yet
Waiting == [at |-> "waiting", body |-> <<>>, staff |-> <<>>]

\* the three lookups of CreateNewStaff in turn: where the goroutine stands
\* before each, the field looked up, and the message on a hit
CheckSteps ==
    << [at |-> "email", field |-> "Email", message |-> "Email already been used"],
       [at |-> "id", field |-> "UUID", message |-> "ID already been used"],
       [at |-> "discord", field |-> "DiscordID", message |-> "Discord ID already been used"],
       [at |-> "insert"] >>

RaceInit ==
    /\ pc = "race"
    /\ passphrase = Deployed
    /\ key = DeriveKey(passphrase)
    /\ calls = [p \in Procs |-> Waiting]
    /\ response = [p \in Procs |-> <<>>]
    /\ staffColl = <<>>
    /\ db = <<>> /\ origin = <<>> /\ issued = <<>>
    /\ plaintext = <<>> /\ encCalls = <<>> /\ decCalls = <<>> /\ reCalls = <<>>
    /\ DynIdle /\ TypedIdle

\* CreateNewStaff in goroutine p, up to the first lookup
BindStaff(p, r) ==
    /\ pc = "race"
    /\ calls[p].at = "waiting"
    /\ IF r.enc.err # "nil"
       THEN /\ calls' = [calls EXCEPT ![p] = [at |-> "done", body |-> r.body, staff |-> <<>>]]
            /\ response' = [response EXCEPT ![p] =
                               <<Respond("CreateNewStaff", r.body, 400,
                                         "Error encryption your data", r.enc.err, <<>>)>>]
       ELSE /\ calls' = [calls EXCEPT ![p] = [at |-> "email", body |-> r.body,
                                              staff |-> r.enc.data]]
            /\ UNCHANGED response
    /\ UNCHANGED <<key, passphrase, pc, plaintext, encCalls, decCalls, reCalls,
                   dynVars, typedVars, db, origin, staffColl, issued>>

\* one lookup of CreateNewStaff in goroutine p: GetStaffQueueByEmail,
\* GetStaffQueueById or GetStaffQueueByDiscordID and the branch on its error
CheckUnused(p, n) ==
    /\ pc = "race"
    /\ calls[p].at = CheckSteps[n].at
    /\ IF FindOneBy(staffColl, CheckSteps[n].field, calls[p].staff[CheckSteps[n].field]).err = "nil"
       THEN /\ calls' = [calls EXCEPT ![p].at = "done"]
            /\ response' = [response EXCEPT ![p] =
                               <<Respond("CreateNewStaff", calls[p].body, 400,
                                         CheckSteps[n].message, "", <<>>)>>]
       ELSE /\ calls' = [calls EXCEPT ![p].at = CheckSteps[n + 1].at]
            /\ UNCHANGED response
    /\ UNCHANGED <<key, passphrase, pc, plaintext, encCalls, decCalls, reCalls,
                   dynVars, typedVars, db, origin, staffColl, issued>>

\* queries.CreateStaffQueue in goroutine p and the response that follows
InsertStaff(p) ==
    /\ pc = "race"
    /\ calls[p].at = "insert"
    /\ LET ins == CreateStaffQueue(staffColl, calls[p].staff)
       IN  /\ staffColl' = ins.coll
           /\ response' = [response EXCEPT ![p] =
                  IF ins.err # "nil"
                  THEN <<Respond("CreateNewStaff", calls[p].body, 500,
                                 "Internal server error", ins.err, <<>>)>>
                  ELSE <<Respond("CreateNewStaff", calls[p].body, 201,
                                 "Successful create new staff", "", <<>>)>>]
    /\ calls' = [calls EXCEPT ![p].at = "done"]
    /\ UNCHANGED <<key, passphrase, pc, plaintext, encCalls, decCalls, reCalls,
                   dynVars, typedVars, db, origin, issued>>

RaceNext ==
    \/ \E p \in Procs, r \in RaceRequests : BindStaff(p, r)
    \/ \E p \in Procs, n \in 1..3 : CheckUnused(p, n)
    \/ \E p \in Procs : InsertStaff(p)

SpecRace == RaceInit /\ [][RaceNext]_vars

----------------------------------------------------------------------------
(* Claims about the codec, checked under SpecCodec *)

Ok(s) == [val |-> s, err |-> "nil"]

\* C1 as stated: every non-empty plaintext encrypts successfully and its
\* envelope decrypts to exactly that plaintext.
C1_RoundTripEveryNonEmpty ==
    \A i \in 1..Len(encCalls) :
        plaintext # <<>> =>
            /\ encCalls[i].res.err = "nil"
            /\ decryptAES256(key, encCalls[i].res.val) = Ok(plaintext)

\* C1 amended: every non-empty plaintext that does not start with the scheme
\* tag encrypts successfully and its envelope decrypts to exactly that
\* plaintext.
C1_RoundTrip ==
    /\ \A i \in 1..Len(encCalls) :
          (plaintext # <<>> /\ ~HasPrefix(plaintext, Tag)) =>
              /\ encCalls[i].res.err = "nil"
              /\ decryptAES256(key, encCalls[i].res.val) = Ok(plaintext)
    /\ \A i \in 1..Len(decCalls) :
          (plaintext # <<>> /\ decCalls[i].in \in Envelopes) =>
              decCalls[i].res = Ok(plaintext)

C1_Witness ==
    /\ Len(plaintext) > BlockSize
    /\ Len(decCalls) = 1
    /\ decCalls[1].in \in Envelopes
    /\ decCalls[1].res = Ok(plaintext)

\* C8 as stated: two independent encryptAES256 calls on the same string
\* return different envelopes, and both envelopes decrypt to the string.
C8_TwoCallsAlwaysDiffer ==
    Len(encCalls) = 2 =>
        /\ encCalls[1].res.err = "nil" /\ encCalls[2].res.err = "nil"
        /\ encCalls[1].res.val # encCalls[2].res.val
        /\ \A i \in 1..2 : decryptAES256(key, encCalls[i].res.val) = Ok(plaintext)

\* C8 amended: for a string that does not start with the scheme tag, two
\* encryptAES256 calls both succeed and both envelopes decrypt to the string;
\* the envelopes differ exactly when the IVs the two calls drew differ.
C8_DistinctIVsDistinctEnvelopes ==
    (Len(encCalls) = 2 /\ ~HasPrefix(plaintext, Tag)) =>
        /\ encCalls[1].res.err = "nil" /\ encCalls[2].res.err = "nil"
        /\ (encCalls[1].res.val # encCalls[2].res.val) <=> (encCalls[1].iv # encCalls[2].iv)
        /\ \A i \in 1..2 : decryptAES256(key, encCalls[i].res.val) = Ok(plaintext)

C8_Witness ==
    /\ Len(encCalls) = 2
    /\ plaintext # <<>>
    /\ encCalls[1].iv # encCalls[2].iv
    /\ encCalls[1].res.err = "nil" /\ encCalls[2].res.err = "nil"
    /\ encCalls[1].res.val # encCalls[2].res.val

\* C9: encryptAES256 fails, returning no envelope, on every input that starts
\* with the scheme tag; every envelope it returns starts with the tag, so
\* encryptAES256 applied to its own output always fails.
C9_DoubleEncryptionGuard ==
    /\ \A i \in 1..Len(encCalls) :
          /\ HasPrefix(plaintext, Tag) =>
                encCalls[i].res = [val |-> <<>>, err |-> ErrAlreadyEncrypted]
          /\ encCalls[i].res.err = "nil" => HasPrefix(encCalls[i].res.val, Tag)
    /\ \A i \in 1..Len(reCalls) :
          reCalls[i].res = [val |-> <<>>, err |-> ErrAlreadyEncrypted]

C9_Witness ==
    /\ Len(reCalls) = 1
    /\ reCalls[1].in \in Envelopes
    /\ reCalls[1].res.err = ErrAlreadyEncrypted

\* C10: decryptAES256 returns the invalid-format error and an empty result
\* for every input that does not start with the scheme tag.
C10_InvalidFormat ==
    \A i \in 1..Len(decCalls) :
        ~HasPrefix(decCalls[i].in, Tag) =>
            decCalls[i].res = [val |-> <<>>, err |-> ErrInvalidFormat]

C10_Witness ==
    /\ Len(decCalls) = 1
    /\ decCalls[1].in = Bytes("AES256")
    /\ decCalls[1].res.err = ErrInvalidFormat

----------------------------------------------------------------------------
(* Claims about the dynamic engine, checked under SpecDynamic *)

Companion(f) == f \o HashSuffix

\* the names ignore_encryption gives, as a map's keys or as a list's items
NamedExempt(m) == IF IgnoreKey \in DOMAIN m THEN m[IgnoreKey].names ELSE {}

Eligible(m, f, exempt) ==
    /\ f # IgnoreKey
    /\ ~HasSuffix(f, HashSuffix)
    /\ f \notin exempt
    /\ IsStr(m[f])

\* in `out`, f holds an envelope of v and f_hash the fingerprint of v
EncryptedAs(out, f, v) ==
    /\ f \in DOMAIN out
    /\ IsStr(out[f])
    /\ decryptAES256(key, out[f].v) = Ok(v)
    /\ Companion(f) \in DOMAIN out
    /\ out[Companion(f)] = StrV(Fingerprint(v))

Untouched(in, out, f) ==
    /\ f \in DOMAIN out
    /\ out[f] = in[f]
    /\ (Companion(f) \notin DOMAIN in => Companion(f) \notin DOMAIN out)

EncryptSucceeded == encOut # <<>> /\ encOut[1].err = "nil"

\* C2 as stated: a successful EncryptFieldsByConfig turns every eligible field
\* (not the control field, no "_hash" suffix, not named exempt, a string) into
\* an envelope of its value with its fingerprint beside it, and leaves every
\* other field with the value it had, adding no companion for it.
C2_OnlyEligibleChange ==
    EncryptSucceeded =>
        \A f \in (DOMAIN requestData) \ {IgnoreKey} :
            IF Eligible(requestData, f, NamedExempt(requestData))
            THEN EncryptedAs(Stored, f, requestData[f].v)
            ELSE Untouched(requestData, Stored, f)

\* C2 amended: with the exempt set being the keys of ignore_encryption when
\* that value is a JSON object (empty otherwise), a successful
\* EncryptFieldsByConfig turns every eligible field into an envelope of its
\* value with its fingerprint beside it; every other field except the control
\* field keeps its value and gains no companion, unless it is the field g_hash
\* of an eligible field g, which then holds the fingerprint of g.
C2_EligibleTransformedOthersKept ==
    EncryptSucceeded =>
        LET elig(f) == Eligible(requestData, f, IgnoreConfig(requestData))
        IN  \A f \in (DOMAIN requestData) \ {IgnoreKey} :
                /\ elig(f) => EncryptedAs(Stored, f, requestData[f].v)
                /\ (~elig(f) /\ ~\E g \in DOMAIN requestData : elig(g) /\ f = Companion(g))
                      => Untouched(requestData, Stored, f)

C2_Witness ==
    /\ EncryptSucceeded
    /\ {"a", "n", "sub", "list"} \subseteq DOMAIN requestData
    /\ EncryptedAs(Stored, "a", requestData["a"].v)
    /\ Stored["n"] = NumV(5)

\* C3: ProcessFieldsForHash gives every eligible string field f of the filter
\* the key f_hash holding the fingerprint of its value and removes the key f;
\* {"email": "a@b.com"} becomes exactly {"email_hash": fingerprint("a@b.com")}.
C3_FilterRewrite ==
    hashOut # <<>> =>
        LET out == hashOut[1].data
        IN  /\ hashOut[1].err = "nil"
            /\ \A f \in DOMAIN requestData :
                  Eligible(requestData, f, IgnoreConfig(requestData)) =>
                      /\ Companion(f) \in DOMAIN out
                      /\ out[Companion(f)] = StrV(Fingerprint(requestData[f].v))
                      /\ f \notin DOMAIN out
            /\ requestData = EmailDoc =>
                  out = ("email_hash" :> StrV(Fingerprint(Bytes("a@b.com"))))

C3_Witness ==
    /\ hashOut # <<>>
    /\ requestData = EmailDoc
    /\ DOMAIN hashOut[1].data = {"email_hash"}

\* C5: when DecryptFieldsByConfig succeeds, every top-level string that
\* carried the scheme tag has been replaced by its plaintext, and for every
\* key f of the input the key f_hash is absent from the output, whatever the
\* order in which the fields were visited.
C5_DecryptStripsFingerprints ==
    (decOut # <<>> /\ decOut[1].err = "nil") =>
        LET out == decOut[1].data
        IN  /\ \A f \in DOMAIN Stored : Companion(f) \notin DOMAIN out
            /\ \A f \in (DOMAIN Stored) \cap (DOMAIN out) :
                  (IsStr(Stored[f]) /\ HasPrefix(Stored[f].v, Tag)) =>
                      out[f] = StrV(decryptAES256(key, Stored[f].v).val)

\* C6 as stated: with ignore_encryption given as the list ["note"],
\* EncryptFieldsByConfig leaves note in plaintext without note_hash, replaces
\* bio by an envelope, adds bio_hash and drops ignore_encryption.
C6_ExemptionAsList ==
    (requestData = ExemptionListDoc /\ encOut # <<>>) =>
        /\ encOut[1].err = "nil"
        /\ DOMAIN Stored = {"note", "bio", "bio_hash"}
        /\ Stored["note"] = S("plain")
        /\ EncryptedAs(Stored, "bio", Bytes("secret"))

\* C6 amended: with ignore_encryption given as a JSON object that has the key
\* "note", EncryptFieldsByConfig leaves note in plaintext without note_hash,
\* replaces bio by an envelope, adds bio_hash and drops ignore_encryption.
C6_ExemptionHonored ==
    (requestData = ExemptionDoc /\ encOut # <<>>) =>
        /\ encOut[1].err = "nil"
        /\ DOMAIN Stored = {"note", "bio", "bio_hash"}
        /\ Stored["note"] = S("plain")
        /\ EncryptedAs(Stored, "bio", Bytes("secret"))

C6_Witness ==
    /\ requestData = ExemptionDoc
    /\ EncryptSucceeded
    /\ Stored["note"] = S("plain")
    /\ "bio_hash" \in DOMAIN Stored

----------------------------------------------------------------------------
(* Claims about storage and search, checked under SpecStore *)

\* the last request was a GetData with the plaintext filter {f: x}
Searched(f) ==
    /\ response # <<>>
    /\ response[1].handler = "GetData"
    /\ DOMAIN response[1].body = {f}
    /\ IsStr(response[1].body[f])

\* SaveData stored db[i] from a body whose eligible string field f held v
SavedWith(i, f, v) ==
    /\ f \in DOMAIN origin[i]
    /\ Eligible(origin[i], f, IgnoreConfig(origin[i]))
    /\ origin[i][f] = StrV(v)

\* the _id a stored document has when it is returned
ReturnedId(doc) ==
    IF IsStr(doc[IdKey]) /\ HasPrefix(doc[IdKey].v, Tag)
    THEN StrV(decryptAES256(key, doc[IdKey].v).val)
    ELSE doc[IdKey]

\* the response carries db[i]
Returned(i) ==
    \E j \in 1..Len(response[1].results) :
        response[1].results[j][IdKey] = ReturnedId(db[i])

\* the response carries db[i] with f equal to v
ReturnedWith(i, f, v) ==
    \E j \in 1..Len(response[1].results) :
        /\ response[1].results[j][IdKey] = ReturnedId(db[i])
        /\ f \in DOMAIN response[1].results[j]
        /\ response[1].results[j][f] = StrV(v)

\* the top-level strings of a stored document that carry the tag
TaggedFields(doc) == {f \in DOMAIN doc : IsStr(doc[f]) /\ HasPrefix(doc[f].v, Tag)}

\* every tagged string of the document is an envelope decryptAES256 accepts
Readable(doc) == \A f \in TaggedFields(doc) : decryptAES256(key, doc[f].v).err = "nil"

\* some tagged string of the document makes decryptAES256 panic
Crashing(doc) == \E f \in TaggedFields(doc) : decryptAES256(key, doc[f].v).err = Panic

\* C4 as stated: after SaveData stored a document whose eligible string field
\* f held v, GetData with the filter {f: v} returns that document with f equal
\* to v, and GetData with {f: w}, w of another fingerprint, does not return it.
C4_SearchFindsEverySaved ==
    \A f \in {"email"} : Searched(f) =>
        \A i \in 1..Len(db) :
            LET x == response[1].body[f].v
                v == origin[i][f].v
            IN  SavedWith(i, f, v) =>
                    /\ x = v => (response[1].code = 200 /\ ReturnedWith(i, f, v))
                    /\ Fingerprint(x) # Fingerprint(v) => ~Returned(i)

\* C4 amended: GetData with the filter {f: v} answers 200 and returns every
\* stored document saved with f = v whose tagged top-level strings are all
\* well-formed envelopes, with f equal to v, provided no stored document that
\* matches the filter holds a tagged string whose payload decodes to fewer
\* than 16 bytes; if one does, the request is aborted without a response.  A
\* document saved with a value of another fingerprint is never returned.
C4_SearchFindsReadable ==
    \A f \in {"email"} : Searched(f) =>
        LET x == response[1].body[f].v
            hit == {i \in 1..Len(db) : SavedWith(i, f, x)}
        IN  /\ (\A i \in hit : ~Crashing(db[i])) => response[1].code = 200
            /\ (\E i \in hit : Crashing(db[i])) => response[1] = Aborted("GetData", response[1].body)
            /\ \A i \in 1..Len(db) :
                  LET v == origin[i][f].v
                  IN  SavedWith(i, f, v) =>
                          /\ (x = v /\ response[1].code = 200 /\ Readable(db[i]))
                                => ReturnedWith(i, f, v)
                          /\ Fingerprint(x) # Fingerprint(v) => ~Returned(i)

C4_Witness ==
    /\ Searched("email")
    /\ response[1].code = 200
    /\ Len(db) = 2
    /\ \E i, j \in 1..2 :
          /\ SavedWith(i, "email", Bytes("a@b.com"))
          /\ ReturnedWith(i, "email", Bytes("a@b.com"))
          /\ SavedWith(j, "email", Bytes("c@d.com"))
          /\ ~Returned(j)

----------------------------------------------------------------------------
(* Claims about the typed engine, checked under SpecTyped *)

\* C7: EncryptStructFields succeeds on an entity that has a marked string
\* leaf already carrying the scheme tag and leaves that leaf as it was; and a
\* second EncryptStructFields on the result of a first one succeeds and
\* changes nothing.
C7_TypedIdempotent ==
    /\ encStruct # <<>> =>
          /\ encStruct[1].err = "nil"
          /\ HasPrefix(entity.RealName, Tag) => Encrypted.RealName = entity.RealName
    /\ reStruct # <<>> =>
          /\ reStruct[1].err = "nil"
          /\ reStruct[1].data = Encrypted

----------------------------------------------------------------------------
(* Claims about malformed envelopes and the key, checked under SpecCodec *)

Payload(c) == SubSeq(c, Len(Tag) + 1, Len(c))

\* the payload is no base64, or decodes to fewer bytes than one IV
Malformed(c) ==
    \/ Base64Decode(Payload(c)).err # "nil"
    \/ Len(Base64Decode(Payload(c)).val) < BlockSize

\* C11 as stated: decryptAES256 returns an error value, and does not crash,
\* for every tagged input whose payload is malformed base64 or decodes to
\* fewer bytes than one IV.
C11_MalformedPayloadIsError ==
    \A i \in 1..Len(decCalls) :
        (HasPrefix(decCalls[i].in, Tag) /\ Malformed(decCalls[i].in)) =>
            /\ decCalls[i].res.err # "nil"
            /\ decCalls[i].res.err # Panic

\* C12 as stated: with an empty passphrase no key is derived and no encrypt
\* or decrypt call runs.
C12_EmptyPassphraseIsFatal ==
    passphrase = <<>> =>
        /\ key # DeriveKey(passphrase)
        /\ encCalls = <<>> /\ decCalls = <<>> /\ reCalls = <<>>

----------------------------------------------------------------------------
(* Claims about skipped fields and errors of the dynamic engine, checked   *)
(* under SpecDynamic                                                       *)

Suffixed(m) == {f \in DOMAIN m : HasSuffix(f, HashSuffix)}

Kept(in, out, f) == f \in DOMAIN out /\ out[f] = in[f]

\* f is the key g_hash of a field g the loops fingerprint
CompanionOfEligible(m, f) ==
    \E g \in DOMAIN m : Eligible(m, g, IgnoreConfig(m)) /\ f = Companion(g)

FingerprintOfOwner(in, out, f) ==
    /\ f \in DOMAIN out
    /\ \E g \in DOMAIN in :
          /\ Eligible(in, g, IgnoreConfig(in)) /\ f = Companion(g)
          /\ out[f] = StrV(Fingerprint(in[g].v))

\* C13 as stated: EncryptFieldsByConfig and ProcessFieldsForHash leave every
\* key of the input that ends in "_hash" present with its input value.
C13_SuffixedAlwaysKept ==
    /\ encOut # <<>> =>
          \A f \in Suffixed(requestData) : Kept(requestData, encOut[1].data, f)
    /\ hashOut # <<>> =>
          \A f \in Suffixed(requestData) : Kept(requestData, hashOut[1].data, f)

\* C13 amended: a key f of the input that ends in "_hash" is left present
\* with its input value by both functions, unless f is g_hash for an
\* eligible string field g of the input; such an f holds the fingerprint of
\* g after ProcessFieldsForHash and after a successful EncryptFieldsByConfig,
\* and its input value or that fingerprint after a failed one.
C13_SuffixPassThrough ==
    /\ encOut # <<>> =>
          \A f \in Suffixed(requestData) :
              IF ~CompanionOfEligible(requestData, f)
              THEN Kept(requestData, encOut[1].data, f)
              ELSE \/ FingerprintOfOwner(requestData, encOut[1].data, f)
                   \/ encOut[1].err # "nil" /\ Kept(requestData, encOut[1].data, f)
    /\ hashOut # <<>> =>
          \A f \in Suffixed(requestData) :
              IF ~CompanionOfEligible(requestData, f)
              THEN Kept(requestData, hashOut[1].data, f)
              ELSE FingerprintOfOwner(requestData, hashOut[1].data, f)

C13_Witness ==
    /\ EncryptSucceeded
    /\ "a_hash_hash" \in DOMAIN requestData
    /\ Stored["a_hash_hash"] = S("plain")
    /\ EncryptedAs(Stored, "a", Bytes("a"))

\* the positions, in the order of the loop, of the eligible string fields
\* that already carry the scheme tag
TaggedAt(m, order) ==
    {i \in 1..Len(order) :
        /\ Eligible(m, order[i], IgnoreConfig(m))
        /\ HasPrefix(m[order[i]].v, Tag)}

FirstOf(I) == CHOOSE p \in I : \A q \in I : p <= q

\* C16: whenever some eligible string field of the document already carries
\* the scheme tag, EncryptFieldsByConfig returns the already-encrypted error
\* and stops at the first such field its loop reaches: the eligible fields
\* reached before it are encrypted and fingerprinted, that field and every
\* eligible field after it keep their values and gain no fingerprint, and
\* ignore_encryption is still in the map.
C16_SurfacesAlreadyEncrypted ==
    (encOut # <<>> /\ TaggedAt(requestData, encOut[1].order) # {}) =>
        LET o == encOut[1].order
            out == encOut[1].data
            p == FirstOf(TaggedAt(requestData, o))
            elig(f) == Eligible(requestData, f, IgnoreConfig(requestData))
        IN  /\ encOut[1].err = ErrAlreadyEncrypted
            /\ \A i \in 1..(p - 1) :
                  elig(o[i]) => EncryptedAs(out, o[i], requestData[o[i]].v)
            /\ \A i \in p..Len(o) :
                  elig(o[i]) =>
                      /\ Kept(requestData, out, o[i])
                      /\ (Companion(o[i]) \in DOMAIN out => Companion(o[i]) \in DOMAIN requestData)
            /\ IgnoreKey \in DOMAIN requestData => Kept(requestData, out, IgnoreKey)

C16_Witness ==
    /\ encOut # <<>>
    /\ encOut[1].order = <<"a", "b">>
    /\ requestData["b"] = StrV(ForeignEnvelope)
    /\ encOut[1].err = ErrAlreadyEncrypted
    /\ EncryptedAs(encOut[1].data, "a", Bytes("secret"))
    /\ encOut[1].data["b"] = StrV(ForeignEnvelope)
    /\ "b_hash" \notin DOMAIN encOut[1].data

----------------------------------------------------------------------------
(* Claims about the fields the typed engine leaves alone, checked under    *)
(* SpecTyped                                                               *)

RECURSIVE EmptyOrZero(_, _)
\* an empty string, an empty or nil slice, a struct all of whose fields are
\* empty or zero
EmptyOrZero(fd, x) ==
    CASE fd.kind = "string" -> x = <<>>
      [] fd.kind = "slice" -> x = <<>>
      [] fd.kind = "int" -> x = 0
      [] fd.kind = "struct" ->
            \A i \in 1..Len(Fields(fd.elem)) :
                EmptyOrZero(Fields(fd.elem)[i], x[Fields(fd.elem)[i].name])

RECURSIVE EmptyMarkedKept(_, _, _)
\* every marked field of the struct `in` (of type t) that is empty or zero,
\* at any depth the traversal reaches, has the same value in `out`
EmptyMarkedKept(t, in, out) ==
    \A i \in 1..Len(Fields(t)) :
        Fields(t)[i].marked =>
            IF EmptyOrZero(Fields(t)[i], in[Fields(t)[i].name])
            THEN out[Fields(t)[i].name] = in[Fields(t)[i].name]
            ELSE CASE Fields(t)[i].kind = "struct" ->
                          EmptyMarkedKept(Fields(t)[i].elem, in[Fields(t)[i].name],
                                          out[Fields(t)[i].name])
                   [] Fields(t)[i].kind = "slice" ->
                          /\ Len(out[Fields(t)[i].name]) = Len(in[Fields(t)[i].name])
                          /\ \A j \in 1..Len(in[Fields(t)[i].name]) :
                                EmptyMarkedKept(Fields(t)[i].elem, in[Fields(t)[i].name][j],
                                                out[Fields(t)[i].name][j])
                   [] OTHER -> TRUE

AllMarkedEmpty(x) ==
    \A i \in 1..Len(StaffFields) :
        StaffFields[i].marked => EmptyOrZero(StaffFields[i], x[StaffFields[i].name])

\* C14: EncryptStructFields and DecryptStructFields leave every marked field
\* that is empty or zero-valued exactly as it was; on an entity whose marked
\* fields are all empty both return nil and change nothing.
C14_EmptyValueSkip ==
    /\ encStruct # <<>> =>
          /\ EmptyMarkedKept("Staff", entity, encStruct[1].data)
          /\ AllMarkedEmpty(entity) => encStruct[1] = [data |-> entity, err |-> "nil"]
    /\ reStruct # <<>> => EmptyMarkedKept("Staff", Encrypted, reStruct[1].data)
    /\ decStruct # <<>> =>
          /\ EmptyMarkedKept("Staff", decStruct[1].in, decStruct[1].data)
          /\ AllMarkedEmpty(decStruct[1].in) =>
                (decStruct[1].data = decStruct[1].in /\ decStruct[1].err = "nil")

C14_Witness ==
    /\ entity = BlankStaff
    /\ encStruct = <<[data |-> BlankStaff, err |-> "nil"]>>
    /\ decStruct = <<[in |-> BlankStaff, data |-> BlankStaff, err |-> "nil"]>>

\* the fields of models.Staff that carry no encryption:"true" marker
StaffUnmarked ==
    {"UUID", "Email", "OfficialEmail", "HighSchoolStage", "NationalID", "DiscordID",
     "SignatureUrl", "CurrentGroup", "PermissionLevel", "TeamLeader", "ApplyMessage",
     "CreatedAt"}

FrameKept(in, out) == \A f \in StaffUnmarked : out[f] = in[f]

\* C15: EncryptStructFields and DecryptStructFields never change a field that
\* lacks the marker: UUID, Email, DiscordID and every other unmarked field of
\* a Staff are identical before and after either call, whether the call
\* succeeds or fails.
C15_TypedFrame ==
    /\ encStruct # <<>> => FrameKept(entity, encStruct[1].data)
    /\ reStruct # <<>> => FrameKept(Encrypted, reStruct[1].data)
    /\ decStruct # <<>> => FrameKept(decStruct[1].in, decStruct[1].data)

C15_Witness ==
    /\ entity = FullStaff
    /\ encStruct # <<>> /\ encStruct[1].err = "nil"
    /\ Encrypted.RealName # entity.RealName
    /\ Encrypted.Email = Bytes("a@b.com")
    /\ decStruct # <<>> /\ decStruct[1].in = Encrypted
    /\ decStruct[1].data = entity

----------------------------------------------------------------------------
(* Claims about the handlers, checked under SpecStore *)

WriteOps == {"InsertOne", "UpdateOne"}

Wrote(ops) == \E i \in 1..Len(ops) : ops[i].op \in WriteOps

\* some eligible string field of the request document carries the tag:
\* EncryptFieldsByConfig returns an error on it
DynamicFails(body) ==
    \E f \in DOMAIN body :
        Eligible(body, f, IgnoreConfig(body)) /\ HasPrefix(body[f].v, Tag)

\* EncryptStructFields returns an error on the struct
TypedFails(t, x) ==
    \A ivs \in Stream(Reads(t, x)) : EncryptStructFields(key, t, x, ivs).err # "nil"

\* the request r ran an encryption traversal that returned an error
TraversalFailed(r) ==
    CASE r.handler = "SaveData" -> DynamicFails(r.body)
      [] r.handler = "EditData" -> IdKey \in DOMAIN r.body /\ DynamicFails(r.body)
      [] r.handler = "CreateNewStaff" -> TypedFails("Staff", r.body)
      [] r.handler = "UpdateStaff" ->
            r.message # "Staff not found" /\ TypedFails("UpdateStaff", r.body)
      [] OTHER -> FALSE

\* C17: a SaveData, EditData, CreateNewStaff or UpdateStaff request whose
\* encryption traversal returned an error issues no insert and no update, and
\* leaves both collections as they were.
C17_NoPersistOnFailure ==
    [][ (response' # <<>> /\ TraversalFailed(response'[1])) =>
            /\ ~Wrote(issued')
            /\ db' = db
            /\ staffColl' = staffColl ]_vars

C17_Witness ==
    /\ response # <<>>
    /\ response[1].handler = "EditData"
    /\ TraversalFailed(response[1])
    /\ response[1].code = 500
    /\ issued = <<>>
    /\ Len(db) = 1
    /\ HitsById(db, response[1].body[IdKey]) = {1}
    /\ "bio" \notin DOMAIN db[1]

\* the error texts of the codec
CodecErrors == {ErrAlreadyEncrypted, ErrInvalidFormat, ErrBase64}

\* C18 as stated: no response carries the error text the codec produced.
C18_GenericFailureResponse ==
    response # <<>> => response[1].data \notin CodecErrors

\* C20: no stored document has the key ignore_encryption, whatever type of
\* value the SaveData or EditData request gave it, and no filter or document
\* handed to the storage driver has it either.
C20_ControlFieldNeverPersisted ==
    /\ \A i \in 1..Len(db) : IgnoreKey \notin DOMAIN db[i]
    /\ \A j \in 1..Len(issued) :
          /\ IgnoreKey \notin DOMAIN issued[j].filter
          /\ IgnoreKey \notin DOMAIN issued[j].doc

C20_Witness ==
    /\ response # <<>>
    /\ response[1].handler = "EditData"
    /\ response[1].code = 200
    /\ response[1].body[IgnoreKey] = ArrV({"bio"})
    /\ Len(origin) = 1 /\ origin[1][IgnoreKey] = S("bio")
    /\ DOMAIN db[1] = {IdKey, "bio", "bio_hash"}
    /\ Len(issued) = 1 /\ issued[1].op = "UpdateOne"
    /\ DOMAIN issued[1].doc = {"bio", "bio_hash"}

----------------------------------------------------------------------------
(* Claim about the key under concurrency, checked under SpecConcurrent *)

Inside(p) == calls[p].at = "inside"

\* every value of the key any call has read is the one init() derived
ReadsAgree ==
    \A p \in Procs : \A i \in 1..Len(calls[p].ks) : calls[p].ks[i] = DeriveKey(passphrase)

\* C19: the key is the value init() derived, in every state of every
\* interleaving of concurrent encryptAES256, decryptAES256,
\* EncryptStructFields and EncryptFieldsByConfig calls; no step of a call
\* changes it, and every call reads that same value.
C19_KeyImmutable ==
    /\ [](key = DeriveKey(passphrase) /\ ReadsAgree)
    /\ [][key' = key /\ passphrase' = passphrase]_vars

C19_Witness ==
    /\ Inside(1) /\ Inside(2)
    /\ calls[1].op = "EncryptStructFields" /\ calls[1].left > 0 /\ Len(calls[1].ks) > 1
    /\ calls[2].op = "decryptAES256" /\ Len(calls[2].ks) = 1
    /\ calls[1].ks[2] = calls[2].ks[1]
    /\ calls[2].ks[1] = key

----------------------------------------------------------------------------
(* Claims that compare the write path and the query path of the dynamic    *)
(* engine, checked under SpecDynamic                                       *)

\* the keys of `in` the write path replaced by an envelope
Enveloped(in, out) ==
    {f \in (DOMAIN in) \cap (DOMAIN out) :
        out[f] # in[f] /\ IsStr(out[f]) /\ HasPrefix(out[f].v, Tag)}

\* the keys of `in` the query path replaced by their fingerprint
Fingerprinted(in, out) == {f \in (DOMAIN in) \ {IgnoreKey} : f \notin DOMAIN out}

\* C21: for every field f that EncryptFieldsByConfig encrypts, the value it
\* stores under f_hash is the value ProcessFieldsForHash stores under f_hash
\* for the same input, whatever the order of either loop; it is the same under
\* every key and every IV, and the same on every ProcessFieldsForHash call.
C21_FingerprintSameOnBothPaths ==
    /\ encOut # <<>> =>
          \A f \in Enveloped(requestData, encOut[1].data) :
              /\ Companion(f) \in DOMAIN encOut[1].data
              /\ \A o \in Perms(DOMAIN requestData) :
                    /\ Companion(f) \in DOMAIN ProcessFieldsForHash(requestData, o).data
                    /\ ProcessFieldsForHash(requestData, o).data[Companion(f)]
                           = encOut[1].data[Companion(f)]
              /\ \A p \in Passphrases, ivs \in Draws(requestData) :
                    LET other == EncryptFieldsByConfig(DeriveKey(p), requestData,
                                                       encOut[1].order, ivs).data
                    IN  /\ f \in Enveloped(requestData, other)
                        /\ other[Companion(f)] = encOut[1].data[Companion(f)]
    /\ hashOut # <<>> =>
          \A f \in Fingerprinted(requestData, hashOut[1].data) :
              /\ Companion(f) \in DOMAIN hashOut[1].data
              /\ hashOut[1].data[Companion(f)] = StrV(Fingerprint(requestData[f].v))

C21_Witness ==
    /\ passphrase = <<>>
    /\ EncryptSucceeded
    /\ DOMAIN requestData = {"a", "b"}
    /\ Enveloped(requestData, Stored) = {"a", "b"}
    /\ Stored["a"] # Stored["b"]
    /\ Stored["a_hash"] = Stored["b_hash"]
    /\ Stored["a_hash"] = ProcessFieldsForHash(requestData, <<"b", "a">>).data["a_hash"]

\* the keys the three `continue`s and the string test of both loops let through
EligibleKeys(m) == {f \in DOMAIN m : Eligible(m, f, IgnoreConfig(m))}

\* C22 as stated: on every input, the keys ProcessFieldsForHash fingerprints
\* are exactly the keys EncryptFieldsByConfig encrypts.
C22_SameKeysEveryInput ==
    encOut # <<>> =>
        \A o \in Perms(DOMAIN requestData) :
            Enveloped(requestData, encOut[1].data)
                = Fingerprinted(requestData, ProcessFieldsForHash(requestData, o).data)

\* C22 amended: on every input on which EncryptFieldsByConfig succeeds, the
\* keys ProcessFieldsForHash fingerprints are exactly the keys
\* EncryptFieldsByConfig encrypts: the string-valued keys that are not the
\* control field, do not end in "_hash" and are not keys of the
\* ignore_encryption object.  When EncryptFieldsByConfig returns an error, the
\* keys it encrypted are fewer: ProcessFieldsForHash also fingerprints the
\* strings that carry the scheme tag.
C22_SameKeysOnSuccess ==
    /\ encOut # <<>> =>
          \A o \in Perms(DOMAIN requestData) :
              LET enc == Enveloped(requestData, encOut[1].data)
                  fp == Fingerprinted(requestData, ProcessFieldsForHash(requestData, o).data)
              IN  /\ fp = EligibleKeys(requestData)
                  /\ IF encOut[1].err = "nil" THEN enc = fp
                     ELSE /\ enc \subseteq fp
                          /\ \E f \in fp \ enc : HasPrefix(requestData[f].v, Tag)
    /\ hashOut # <<>> =>
          Fingerprinted(requestData, hashOut[1].data) = EligibleKeys(requestData)

C22_Witness ==
    /\ EncryptSucceeded
    /\ requestData = ExemptionDoc
    /\ Enveloped(requestData, Stored) = {"bio"}
    /\ Fingerprinted(requestData,
                     ProcessFieldsForHash(requestData, <<"note", IgnoreKey, "bio">>).data)
           = {"bio"}

----------------------------------------------------------------------------
(* Claims about the order of the range loops and about the round trip of   *)
(* the dynamic engine, checked under SpecDynamic                           *)

\* the plaintext of an envelope, anything else as it is
Opened(x) ==
    IF IsStr(x) /\ HasPrefix(x.v, Tag) /\ decryptAES256(key, x.v).err = "nil"
    THEN StrV(decryptAES256(key, x.v).val)
    ELSE x

\* two maps have the same keys and the same values, envelopes compared by
\* their plaintext
SameContent(m, n) ==
    /\ DOMAIN m = DOMAIN n
    /\ \A f \in DOMAIN m : Opened(m[f]) = Opened(n[f])

\* C26 as stated: whenever a call of EncryptFieldsByConfig, of
\* ProcessFieldsForHash or of DecryptFieldsByConfig succeeds, the map it leaves
\* has the same keys and values as the map every other visiting order of the
\* same input leaves.
C26_OrderIndependent ==
    /\ EncryptSucceeded =>
          \A o \in Perms(DOMAIN requestData), ivs \in Draws(requestData) :
              LET r == EncryptFieldsByConfig(key, requestData, o, ivs)
              IN  r.err = "nil" /\ SameContent(r.data, Stored)
    /\ hashOut # <<>> =>
          \A o \in Perms(DOMAIN requestData) :
              ProcessFieldsForHash(requestData, o).data = hashOut[1].data
    /\ (decOut # <<>> /\ decOut[1].err = "nil") =>
          \A o \in Perms(DOMAIN Stored) :
              LET r == DecryptFieldsByConfig(key, Stored, o)
              IN  r.err = "nil" => r.data = decOut[1].data

\* C27 as stated: for every document that has no key ending in "_hash" and on
\* which EncryptFieldsByConfig succeeded, DecryptFieldsByConfig on the result
\* succeeds and yields the original document without ignore_encryption.
C27_DynamicRoundTrip ==
    (decOut # <<>> /\ Suffixed(requestData) = {}) =>
        /\ decOut[1].err = "nil"
        /\ decOut[1].data = Delete(requestData, IgnoreKey)

----------------------------------------------------------------------------
(* Claim about the round trip of the typed engine, checked under SpecTyped *)

RECURSIVE NoTaggedLeaf(_, _)
\* no marked string the traversal of the struct x (of type t) reaches starts
\* with the scheme tag
NoTaggedLeaf(t, x) ==
    \A i \in 1..Len(Fields(t)) :
        Fields(t)[i].marked =>
            CASE Fields(t)[i].kind = "string" -> ~HasPrefix(x[Fields(t)[i].name], Tag)
              [] Fields(t)[i].kind = "struct" ->
                     NoTaggedLeaf(Fields(t)[i].elem, x[Fields(t)[i].name])
              [] Fields(t)[i].kind = "slice" ->
                     \A j \in 1..Len(x[Fields(t)[i].name]) :
                         NoTaggedLeaf(Fields(t)[i].elem, x[Fields(t)[i].name][j])
              [] OTHER -> TRUE

RECURSIVE LeavesEnveloped(_, _, _)
\* every non-empty marked string of `in`, at every depth, is in `out` an
\* envelope of it, and every empty one is empty
LeavesEnveloped(t, in, out) ==
    \A i \in 1..Len(Fields(t)) :
        Fields(t)[i].marked =>
            CASE Fields(t)[i].kind = "string" ->
                     IF in[Fields(t)[i].name] = <<>> THEN out[Fields(t)[i].name] = <<>>
                     ELSE /\ HasPrefix(out[Fields(t)[i].name], Tag)
                          /\ decryptAES256(key, out[Fields(t)[i].name])
                                 = Ok(in[Fields(t)[i].name])
              [] Fields(t)[i].kind = "struct" ->
                     LeavesEnveloped(Fields(t)[i].elem, in[Fields(t)[i].name],
                                     out[Fields(t)[i].name])
              [] Fields(t)[i].kind = "slice" ->
                     /\ Len(out[Fields(t)[i].name]) = Len(in[Fields(t)[i].name])
                     /\ \A j \in 1..Len(in[Fields(t)[i].name]) :
                           LeavesEnveloped(Fields(t)[i].elem, in[Fields(t)[i].name][j],
                                           out[Fields(t)[i].name][j])
              [] OTHER -> TRUE

\* C25: on an entity none of whose marked strings starts with the scheme tag,
\* EncryptStructFields succeeds and replaces every non-empty marked string by
\* an envelope of it, in the Staff itself, in its Cards and in every element
\* of EmergencyContact; DecryptStructFields on the result succeeds and gives
\* back an entity equal to the original.
C25_TypedRoundTrip ==
    /\ (encStruct # <<>> /\ NoTaggedLeaf("Staff", entity)) =>
          /\ encStruct[1].err = "nil"
          /\ LeavesEnveloped("Staff", entity, Encrypted)
          /\ FrameKept(entity, Encrypted)
    /\ (encStruct # <<>> /\ decStruct # <<>> /\ decStruct[1].in = Encrypted
            /\ NoTaggedLeaf("Staff", entity)) =>
          (decStruct[1].err = "nil" /\ decStruct[1].data = entity)

C25_Witness ==
    /\ entity.IDCard = Card("f", "")
    /\ entity.EmergencyContact = <<Contact("Bo", "", "")>>
    /\ encStruct # <<>> /\ encStruct[1].err = "nil"
    /\ HasPrefix(Encrypted.IDCard.Front, Tag)
    /\ Encrypted.IDCard.Back = <<>>
    /\ HasPrefix(Encrypted.EmergencyContact[1].Name, Tag)
    /\ Encrypted.EmergencyContact[1].Name # Encrypted.IDCard.Front
    /\ decStruct # <<>> /\ decStruct[1].in = Encrypted
    /\ decStruct[1].err = "nil"
    /\ decStruct[1].data = entity

----------------------------------------------------------------------------
(* Claims about what the collections hold and what the handlers return,    *)
(* checked under SpecStore                                                 *)

\* the key f of which h is f_hash
Owner(h) == SubSeq(h, 1, Len(h) - Len(HashSuffix))

\* in the document, h is the fingerprint of the plaintext of the envelope
\* its owner holds
Indexes(doc, h) ==
    /\ Owner(h) \in DOMAIN doc
    /\ IsStr(doc[Owner(h)])
    /\ HasPrefix(doc[Owner(h)].v, Tag)
    /\ decryptAES256(key, doc[Owner(h)].v).err = "nil"
    /\ doc[h] = StrV(Fingerprint(decryptAES256(key, doc[Owner(h)].v).val))

\* C23 as stated: in every stored document, whenever a key f_hash is present
\* the key f is present, holds an envelope, and f_hash is the fingerprint of
\* the plaintext of f.
C23_IndexConsistent ==
    \A i \in 1..Len(db) : \A h \in Suffixed(db[i]) : Indexes(db[i], h)

\* SaveData stored db[i] from a body whose _id was the string v, not exempt
SavedUnderId(i, v) ==
    /\ IdKey \in DOMAIN origin[i]
    /\ Eligible(origin[i], IdKey, IgnoreConfig(origin[i]))
    /\ origin[i][IdKey] = StrV(v)

\* the request r names, by the plaintext of its _id, a document SaveData stored
Addresses(r) ==
    /\ IdKey \in DOMAIN r.body
    /\ IsStr(r.body[IdKey])
    /\ \E i \in 1..Len(db) : SavedUnderId(i, r.body[IdKey].v)

\* C28: SaveData stores a string _id that is not exempt as an envelope, with
\* _id_hash beside it; an EditData request whose _id is the plaintext of such
\* a document hands that plaintext to the driver as the filter, matches no
\* stored document, is answered with the not-found error and changes nothing;
\* and no EditData request changes the _id of a stored document.
C28_EditAddressing ==
    /\ [](\A i \in 1..Len(db) :
            (IdKey \in DOMAIN origin[i] /\ IsStr(origin[i][IdKey])
                /\ Eligible(origin[i], IdKey, IgnoreConfig(origin[i])))
                => EncryptedAs(db[i], IdKey, origin[i][IdKey].v))
    /\ [][ (response' # <<>> /\ response'[1].handler = "EditData") =>
              /\ Len(db') = Len(db)
              /\ \A i \in 1..Len(db) : db'[i][IdKey] = db[i][IdKey]
              /\ Addresses(response'[1]) =>
                    /\ issued' = <<Op("UpdateOne", IdKey :> response'[1].body[IdKey],
                                      issued'[1].doc)>>
                    /\ HitsById(db, response'[1].body[IdKey]) = {}
                    /\ response'[1].code = 500
                    /\ response'[1].data = ErrNoDocuments
                    /\ db' = db ]_vars

C28_Witness ==
    /\ response # <<>>
    /\ response[1].handler = "EditData"
    /\ response[1].body = (IdKey :> S("a")) @@ ("age" :> NumV(2))
    /\ response[1].data = ErrNoDocuments
    /\ Len(db) = 1
    /\ SavedUnderId(1, Bytes("a"))
    /\ EncryptedAs(db[1], IdKey, Bytes("a"))
    /\ db[1]["age"] = NumV(1)
    /\ issued[1].filter = (IdKey :> S("a"))


\* a successful response of the handler h
Succeeded(h) ==
    /\ response # <<>>
    /\ response[1].handler = h
    /\ response[1].code = 200

\* C24 as stated: every record in a successful response of GetData, GetStaffs
\* or UpdateStaff has been decrypted: no marked field of a returned staff
\* record and no top-level string of a returned dynamic document carries the
\* scheme tag.
C24_ResponsesDecrypted ==
    /\ Succeeded("GetData") =>
           \A j \in 1..Len(response[1].results) : TaggedFields(response[1].results[j]) = {}
    /\ Succeeded("GetStaffs") =>
           \A j \in 1..Len(response[1].results) : NoTaggedLeaf("Staff", response[1].results[j])
    /\ Succeeded("UpdateStaff") =>
           \A j \in 1..Len(response[1].results) : NoTaggedLeaf("Staff", response[1].results[j])


\* the documents the Find of the answered GetData matched
MatchedDocs == Find(db, issued[1].filter)

\* the staff records the Find of the answered GetStaffs matched
MatchedStaffs == FindStaff(staffColl, response[1].body)

\* DecryptFieldsByConfig returns the document without error in some order of
\* its range loop
CanDecrypt(doc) == \E o \in DecryptOutcomes(key, doc) : o.err = "nil"

\* DecryptFieldsByConfig returns an error, and does not panic, in every order
FailsToDecrypt(doc) == \A o \in DecryptOutcomes(key, doc) : o.err \notin {"nil", Panic}

\* DecryptFieldsByConfig returns the document without error in every order
AlwaysDecrypts(doc) == \A o \in DecryptOutcomes(key, doc) : o.err = "nil"

\* GetData answered a query that reached the collection
GetDataAnswered ==
    /\ response # <<>>
    /\ response[1].handler = "GetData"
    /\ issued # <<>>

\* GetStaffs answered
GetStaffsAnswered ==
    /\ response # <<>>
    /\ response[1].handler = "GetStaffs"
    /\ response[1].code # 0

\* the outcome of DecryptStructFields on the i-th matched staff record
StaffOutcome(i) == DecryptStructFields(key, "Staff", MatchedStaffs[i])

\* C30: queries.GetData leaves out every matched document on which
\* DecryptFieldsByConfig fails and still answers with success and the other
\* documents; GetStaffByAnything answers with an error and an empty list when
\* DecryptStructFields fails on a matched staff record; neither returns a
\* document on which decryption failed.
C30_FailureHandlingByPath ==
    /\ GetDataAnswered =>
          LET results == response[1].results
              failing == {i \in 1..Len(MatchedDocs) : FailsToDecrypt(MatchedDocs[i])}
              sound == {i \in 1..Len(MatchedDocs) : AlwaysDecrypts(MatchedDocs[i])}
          IN  /\ (\A i \in 1..Len(MatchedDocs) : ~Crashing(MatchedDocs[i]))
                     => response[1].code = 200
              /\ response[1].code = 200 =>
                     /\ \A j \in 1..Len(results) :
                            \E i \in 1..Len(MatchedDocs) :
                                \E o \in DecryptOutcomes(key, MatchedDocs[i]) :
                                    o.err = "nil" /\ o.data = results[j]
                     /\ Len(results) <= Len(MatchedDocs) - Cardinality(failing)
                     /\ Len(results) >= Cardinality(sound)
    /\ GetStaffsAnswered =>
          LET results == response[1].results
              failed == {i \in 1..Len(MatchedStaffs) : StaffOutcome(i).err # "nil"}
          IN  IF failed = {}
              THEN /\ response[1].code = 200
                   /\ results = [i \in 1..Len(MatchedStaffs) |-> StaffOutcome(i).data]
              ELSE /\ response[1].code = 500
                   /\ results = <<>>

\* GetData answered 200 with one of two matched documents, the other being one
\* DecryptFieldsByConfig fails on
C30_Witness ==
    /\ GetDataAnswered
    /\ response[1].code = 200
    /\ Len(MatchedDocs) = 2
    /\ Len(response[1].results) = 1
    /\ \E i \in 1..2 : FailsToDecrypt(MatchedDocs[i])


----------------------------------------------------------------------------
(* Claims about concurrent CreateNewStaff requests *)

\* some stored staff document has the email or the discord_id of x
Taken(x) ==
    \E i \in 1..Len(staffColl) :
        \/ staffColl[i].Email = x.Email
        \/ staffColl[i].DiscordID # <<>> /\ staffColl[i].DiscordID = x.DiscordID

\* C29 as stated: after any interleaving of concurrent CreateNewStaff
\* requests no two stored staff documents have the same email and no two the
\* same non-empty discord_id, and a request whose email or discord_id is
\* already stored inserts nothing and is answered with 400.
C29_StaffUniqueUnderRace ==
    /\ [](\A i, j \in 1..Len(staffColl) :
              i # j => /\ staffColl[i].Email # staffColl[j].Email
                       /\ staffColl[i].DiscordID # <<>>
                              => staffColl[i].DiscordID # staffColl[j].DiscordID)
    /\ [][\A p \in Procs :
              (calls[p].at = "insert" /\ calls'[p].at = "done" /\ Taken(calls[p].staff))
                  => staffColl' = staffColl /\ response'[p][1].code = 400]_vars

====
